---- MODULE Spec2Model ----
(***************************************************************************)
(* The signaling server of screen-capture (src/server/src/server.ts): the  *)
(* clients registry, the rooms directory and the WebSocket handlers that   *)
(* join, leave, relay and disconnect.  Every handler runs to completion on *)
(* the Node.js event loop, so each action below is one whole handler.      *)
(***************************************************************************)
EXTENDS Integers, Sequences, FiniteSets, TLC

\* Number of WebSocket connections accepted in a run.  Each gets a fresh id
\* (randomUUID), modelled as the next unused number.
MaxClients == 3

\* Number of handlers whose presence notifications are kept in the history.
MaxEvents == 3

Ids == 1..MaxClients

\* Number of connections accepted in a run over the frames of every shape;
\* the other ids are those of connections that were never made.
MaxJoiners == 2

(***************************************************************************)
(* JavaScript values as they reach the handlers.                           *)
(***************************************************************************)
Null == "<null>"
Undefined == "<undefined>"

\* A value of a payload field that may be a string, a number or missing.
StrVal(s) == [t |-> "string", s |-> s, n |-> 0]
NumVal(n) == [t |-> "number", s |-> "", n |-> n]
Undef == [t |-> "undefined", s |-> "", n |-> 0]

\* !value for such a value: undefined, '' and 0 are falsy.
Falsy(v) ==
    \/ v.t = "undefined"
    \/ v.t = "string" /\ v.s = ""
    \/ v.t = "number" /\ v.n = 0

\* !value for a field modelled as a plain string.
FalsyStr(s) == s \in {Undefined, ""}

\* String(value): a string is kept, a number is printed in decimal.
String(v) == IF v.t = "number" THEN ToString(v.n) ELSE v.s

\* targetClientId when the field is missing (or empty): falsy.
NoTarget == 0

(***************************************************************************)
(* Inputs: what a client may put in an envelope.                           *)
(***************************************************************************)
\* Room ids as clients write them: the number 7 and the string '7' name
\* the same room once normalized.
RawRoomIds == {StrVal("R1"), StrVal("7"), NumVal(7)}
JoinRoomIds == {StrVal("R1"), NumVal(7)}
RawModes == {"stream", "call", "chat"}
RawRoles == {Undefined, "host"}

\* The payload object of an envelope; a field the client left out is undefined.
EmptyPayload ==
    [roomId |-> Undef, mode |-> Undefined, role |-> Undefined,
     targetClientId |-> NoTarget, signal |-> Undefined]

JoinPayloads ==
    {[EmptyPayload EXCEPT !.roomId = r, !.mode = m, !.role = ro] :
        r \in JoinRoomIds, m \in RawModes, ro \in RawRoles}
    \cup {[EmptyPayload EXCEPT !.roomId = StrVal("R1")],
          [EmptyPayload EXCEPT !.mode = "call"]}
    \cup {[EmptyPayload EXCEPT !.roomId = StrVal("R1"), !.mode = m, !.role = ""] :
             m \in {"stream", "chat"}}

\* Untargeted signals.
BroadcastPayloads ==
    {[EmptyPayload EXCEPT !.roomId = r, !.signal = "offer"] : r \in RawRoomIds}

\* Signal values, opaque to the server.  Undefined is a payload without the
\* field; the others are present: an offer, and the values '', null, 0,
\* false and {} written as their JSON text.
FalsySignals == {"", "null", "0", "false"}
RawSignals == {Undefined, "offer", "{}"} \cup FalsySignals

\* targetClientId: absent, or the id of a connection that may or may not
\* be registered.
RawTargets == {NoTarget} \cup Ids

\* Room ids of a signal: missing, empty, and the two rooms.
SignalRoomIds == {Undef, StrVal(""), StrVal("R1"), NumVal(7)}

\* Signals of every shape, and the present-but-falsy values on one route
\* of each kind.
SignalPayloads ==
    {[EmptyPayload EXCEPT !.roomId = r, !.targetClientId = t, !.signal = sig] :
        r \in SignalRoomIds, t \in RawTargets, sig \in {Undefined, "offer"}}
    \cup {[EmptyPayload EXCEPT !.roomId = StrVal("R1"), !.targetClientId = t, !.signal = sig] :
        t \in {NoTarget, 1}, sig \in RawSignals}

\* A parsed envelope; payload = Undef is an envelope without a payload.
Envelope(type, payload) ==
    [json |-> TRUE, object |-> TRUE, type |-> type, payload |-> payload]

\* No frame: the event is not a message.
NoMessage == [json |-> FALSE, object |-> FALSE, type |-> Undefined, payload |-> Undef]

\* Frames that are not an envelope: text that is not JSON, JSON that is
\* not an object (null, a number), an object without a string type.
MalformedMessages ==
    {NoMessage,
     [json |-> TRUE, object |-> FALSE, type |-> Undefined, payload |-> Undef],
     [json |-> TRUE, object |-> TRUE, type |-> Undefined, payload |-> Undef],
     [json |-> TRUE, object |-> TRUE, type |-> Undefined,
      payload |-> [EmptyPayload EXCEPT !.roomId = StrVal("R1"), !.mode = "call"]]}

\* The frames of the default specification: joins, leaves and broadcasts.
RawMessages ==
    {Envelope("join-room", p) : p \in JoinPayloads}
    \cup {Envelope("signal", p) : p \in BroadcastPayloads}
    \cup {Envelope("leave-room", Undef)}

\* The frames of the delivery specification: one mode, default roles.
DeliveryMessages ==
    {Envelope("join-room", [EmptyPayload EXCEPT !.roomId = r, !.mode = "call"]) :
        r \in JoinRoomIds}
    \cup {Envelope("signal", [EmptyPayload EXCEPT !.roomId = StrVal("R1"), !.signal = "offer"]),
          Envelope("leave-room", Undef)}

\* The frames of the routing specification: joins of one mode, signals of
\* every shape, ping, an unknown type and frames that are not envelopes.
RoutingMessages ==
    {Envelope("join-room", [EmptyPayload EXCEPT !.roomId = r, !.mode = "call"]) :
        r \in JoinRoomIds}
    \cup {Envelope("signal", p) : p \in SignalPayloads}
    \cup {Envelope("signal", Undef), Envelope("leave-room", Undef),
          Envelope("ping", Undef), Envelope("ping", EmptyPayload),
          Envelope("restart", Undef),
          Envelope("restart", [EmptyPayload EXCEPT !.roomId = StrVal("R1"), !.signal = "offer"])}
    \cup MalformedMessages

\* The frames of the ordering specification: joining and leaving one room.
OrderMessages ==
    {Envelope("join-room", [EmptyPayload EXCEPT !.roomId = StrVal("R1"), !.mode = "call"]),
     Envelope("leave-room", Undef)}

\* The frames of the peer specification: joins of one room with and without
\* a role, signals of that room to every target, and leaves.
PeerMessages ==
    {Envelope("join-room",
              [EmptyPayload EXCEPT !.roomId = StrVal("R1"), !.mode = "call", !.role = ro]) :
        ro \in RawRoles}
    \cup {Envelope("signal",
                   [EmptyPayload EXCEPT !.roomId = StrVal("R1"), !.targetClientId = t,
                                        !.signal = "offer"]) :
             t \in RawTargets}
    \cup {Envelope("leave-room", Undef)}

\* Which sockets' send() throws during one handler: none, or one of them.
NoThrow == {{}}
ThrowSets == {{}} \cup {{c} : c \in Ids}

(***************************************************************************)
(* State.                                                                  *)
(***************************************************************************)
VARIABLES
    clients,      \* clients: Map<clientId, {roomId, mode, role}> (socket = the id)
    rooms,        \* rooms: Map<roomId, {mode, clients}>, clients in insertion order
    readyState,   \* readyState of each connection's socket
    out,          \* the safeSend calls of the last handler, in order
    last,         \* the event the last handler was called for, until its turn ends
    lastEmptied,  \* history: the room emptied most recently, and the mode it had
    wire,         \* history: the presence notifications each socket has taken
    TURN_SECRET,      \* process.env.TURN_SECRET, read once when the module loads
    iceResponseCache, \* iceResponseCache: Map<uid, {cachedAt, response}>
    now,              \* the clock, Date.now() in milliseconds
    uuids,            \* how many room ids randomUUID() has produced for /api/calls
    http,             \* the last HTTP exchange: the request and what was answered
    page,             \* the page of the frontend: window.location and the build setting
    hook,             \* useSignalingRoom: its refs, its SignalingClient, its listener
    signalingClient   \* a SignalingClient on its own: its fields, sockets and timers

socketVars == <<clients, rooms, readyState, out, last, lastEmptied, wire>>
httpVars == <<TURN_SECRET, iceResponseCache, now, uuids, http>>
frontVars == <<page, hook, signalingClient>>
vars == <<clients, rooms, readyState, out, last, lastEmptied, wire,
          TURN_SECRET, iceResponseCache, now, uuids, http, page, hook,
          signalingClient>>

\* Map and insertion-ordered Set operations.
MapHas(m, k) == k \in DOMAIN m
MapSet(m, k, v) == [x \in DOMAIN m \cup {k} |-> IF x = k THEN v ELSE m[x]]
MapDelete(m, k) == [x \in DOMAIN m \ {k} |-> m[x]]
Elems(s) == {s[i] : i \in 1..Len(s)}
SetAdd(s, e) == IF e \in Elems(s) THEN s ELSE Append(s, e)
SetDelete(s, e) == SelectSeq(s, LAMBDA x : x # e)

NoMode == "<none>"

\* The state the handlers work on, threaded through the calls of one
\* handler; readyState is that of the sockets while the handler runs and
\* throws is the set of sockets whose send() throws during it.
State(sockets, thr) ==
    [clients |-> clients, rooms |-> rooms, out |-> <<>>,
     lastEmptied |-> lastEmptied, readyState |-> sockets, throws |-> thr]

\* The event a handler is called for: which listener, whose socket, the
\* frame of a 'message' event, and the sockets whose send() throws.
Event(op, clientId, rawMessage, thr) ==
    [op |-> op, clientId |-> clientId, message |-> rawMessage, throws |-> thr]

NoEvent == Event("none", NoTarget, NoMessage, {})

\* The history of the sockets: seq counts the handlers that had a presence
\* notification taken by a socket, inbox[c] is what socket c has taken, in
\* the order it was written to it.  It is kept only when on.
NoWire == [on |-> FALSE, seq |-> 0, inbox |-> [c \in Ids |-> <<>>], announced |-> {}]
EmptyWire == [NoWire EXCEPT !.on = TRUE]

\* Variant: the socket writes the newest message first.
socketSendNewestFirst(sent, message) == <<message>> \o sent

\* socket.send(): the messages of a socket leave in the order of the calls.
socketSend(sent, message) == Append(sent, message)

IsPresence(msg) == msg.type \in {"peer-joined", "peer-left"} /\ msg.status = "sent"

\* The sends of one handler, written to the sockets in the order of the calls.
RECURSIVE Written(_, _, _, _, _)
Written(inbox, o, n, op, registry) ==
    IF o = <<>> THEN inbox
    ELSE LET msg == Head(o)
             entry == [n |-> n, op |-> op, type |-> msg.type,
                       about |-> msg.payload.clientId,
                       roomId |-> registry[msg.to].roomId]
         IN Written(IF IsPresence(msg)
                    THEN [inbox EXCEPT ![msg.to] = socketSend(@, entry)]
                    ELSE inbox,
                    Tail(o), n, op, registry)

\* The pairs <<x, d>>: d has taken a peer-joined for x since x became a
\* member of the room x is in.  A membership that ends in the handler
\* takes its pairs with it; the peer-joined of the handler add theirs.
Announced(pairs, st) ==
    LET ended == {x \in Ids :
                     \/ ~MapHas(st.clients, x)
                     \/ ~MapHas(clients, x)
                     \/ st.clients[x].roomId # clients[x].roomId}
        kept == {pr \in pairs : pr[1] \notin ended}
        told == {<<st.out[i].payload.clientId, st.out[i].to>> :
                    i \in {j \in 1..Len(st.out) :
                              st.out[j].type = "peer-joined" /\ st.out[j].status = "sent"}}
    IN kept \cup told

Recorded(w, op, st) ==
    IF ~w.on THEN w
    ELSE IF \A i \in 1..Len(st.out) : ~IsPresence(st.out[i])
    THEN [w EXCEPT !.announced = Announced(@, st)]
    ELSE [w EXCEPT !.seq = @ + 1,
                   !.inbox = Written(@, st.out, w.seq + 1, op, st.clients),
                   !.announced = Announced(@, st)]

Commit(st) ==
    /\ clients' = st.clients
    /\ rooms' = st.rooms
    /\ out' = st.out
    /\ lastEmptied' = st.lastEmptied
    /\ wire' = Recorded(wire, last'.op, st)
    /\ UNCHANGED <<httpVars, frontVars>>

(***************************************************************************)
(* Sending.                                                                *)
(***************************************************************************)
\* safeSend: a socket that is not OPEN is skipped, a send that throws is
\* swallowed; the call is recorded with its outcome.
safeSend(st, socket, type, payload) ==
    LET status ==
            IF st.readyState[socket] # "OPEN" THEN "skipped"
            ELSE IF socket \in st.throws THEN "threw"
            ELSE "sent"
    IN [st EXCEPT !.out = Append(@,
            [to |-> socket, type |-> type, payload |-> payload, status |-> status])]

send(st, clientId, type, payload) ==
    IF ~MapHas(st.clients, clientId) THEN st
    ELSE safeSend(st, clientId, type, payload)

\* Variant: the loop stops at the first send that fails.
RECURSIVE forEachSendAbortOnFailure(_, _, _, _, _)
forEachSendAbortOnFailure(st, members, type, payload, excludeClientId) ==
    IF members = <<>> THEN st
    ELSE LET participantId == Head(members)
             s1 == IF participantId = excludeClientId THEN st
                   ELSE IF ~MapHas(st.clients, participantId) THEN st
                   ELSE safeSend(st, participantId, type, payload)
         IN IF Len(s1.out) > Len(st.out) /\ s1.out[Len(s1.out)].status # "sent"
            THEN s1
            ELSE forEachSendAbortOnFailure(s1, Tail(members), type, payload, excludeClientId)

RECURSIVE forEachSend(_, _, _, _, _)
forEachSend(st, members, type, payload, excludeClientId) ==
    IF members = <<>> THEN st
    ELSE LET participantId == Head(members)
             s1 == IF participantId = excludeClientId THEN st
                   ELSE IF ~MapHas(st.clients, participantId) THEN st
                   ELSE safeSend(st, participantId, type, payload)
         IN forEachSend(s1, Tail(members), type, payload, excludeClientId)

\* Mutant: the broadcast does not skip the excluded client.
broadcastRoomToAll(st, roomId, type, payload, excludeClientId) ==
    IF ~MapHas(st.rooms, roomId) THEN st
    ELSE forEachSend(st, st.rooms[roomId].clients, type, payload, NoTarget)

broadcastRoom(st, roomId, type, payload, excludeClientId) ==
    IF ~MapHas(st.rooms, roomId) THEN st
    ELSE forEachSend(st, st.rooms[roomId].clients, type, payload, excludeClientId)

(***************************************************************************)
(* Leaving and disconnecting.                                              *)
(***************************************************************************)
\* Mutant: an emptied room stays in the directory.
leaveRoomMembersKeepRoom(st, clientId, roomId) ==
    LET remaining == SetDelete(st.rooms[roomId].clients, clientId)
        s1 == [st EXCEPT !.rooms[roomId].clients = remaining]
    IN IF Len(remaining) = 0
       THEN [s1 EXCEPT !.lastEmptied = [roomId |-> roomId, mode |-> st.rooms[roomId].mode]]
       ELSE broadcastRoom(s1, roomId, "peer-left", [clientId |-> clientId], clientId)

\* Mutant: the room is deleted when the leaver was alone or with one other.
leaveRoomMembersDeleteEarly(st, clientId, roomId) ==
    LET remaining == SetDelete(st.rooms[roomId].clients, clientId)
        s1 == [st EXCEPT !.rooms[roomId].clients = remaining]
    IN IF Len(remaining) <= 1
       THEN [s1 EXCEPT !.rooms = MapDelete(@, roomId),
                       !.lastEmptied = [roomId |-> roomId, mode |-> st.rooms[roomId].mode]]
       ELSE broadcastRoom(s1, roomId, "peer-left", [clientId |-> clientId], clientId)

\* leaveRoom, the part that runs when the client's room is in the directory:
\* drop the member, then delete the emptied room or tell the remaining ones.
leaveRoomMembers(st, clientId, roomId) ==
    LET remaining == SetDelete(st.rooms[roomId].clients, clientId)
        s1 == [st EXCEPT !.rooms[roomId].clients = remaining]
    IN IF Len(remaining) = 0
       THEN [s1 EXCEPT !.rooms = MapDelete(@, roomId),
                       !.lastEmptied = [roomId |-> roomId, mode |-> st.rooms[roomId].mode]]
       ELSE broadcastRoom(s1, roomId, "peer-left", [clientId |-> clientId], clientId)

\* Variant: the client's roomId, mode and role are kept.
leaveRoomKeepFields(st, clientId) ==
    IF ~MapHas(st.clients, clientId) THEN st
    ELSE IF st.clients[clientId].roomId = Null THEN st
    ELSE LET roomId == st.clients[clientId].roomId
         IN IF MapHas(st.rooms, roomId)
            THEN leaveRoomMembers(st, clientId, roomId)
            ELSE st

leaveRoom(st, clientId) ==
    IF ~MapHas(st.clients, clientId) THEN st
    ELSE IF st.clients[clientId].roomId = Null THEN st
    ELSE LET roomId == st.clients[clientId].roomId
             s1 == IF MapHas(st.rooms, roomId)
                   THEN leaveRoomMembers(st, clientId, roomId)
                   ELSE st
         IN [s1 EXCEPT !.clients[clientId] =
                [roomId |-> Null, mode |-> Null, role |-> Null]]

\* Variant: the cleanup announces the departure and keeps the records.
disconnectClientAnnounceOnly(st, clientId) ==
    IF MapHas(st.clients, clientId) /\ st.clients[clientId].roomId # Null
    THEN broadcastRoom(st, st.clients[clientId].roomId, "peer-left",
                       [clientId |-> clientId], clientId)
    ELSE st

\* Mutant: the client is unregistered before the leave-cleanup.
disconnectClientUnregisterFirst(st, clientId) ==
    leaveRoom([st EXCEPT !.clients = MapDelete(@, clientId)], clientId)

disconnectClient(st, clientId) ==
    LET s1 == leaveRoom(st, clientId)
    IN [s1 EXCEPT !.clients = MapDelete(@, clientId)]

(***************************************************************************)
(* join-room.                                                              *)
(***************************************************************************)
\* Variant: only the roomId is required.
joinRoomIdMissing(payload) == Falsy(payload.roomId)

\* !roomId || !mode
joinRequiredMissing(payload) == Falsy(payload.roomId) \/ FalsyStr(payload.mode)

\* Variant: the mode is taken as the client wrote it.
normalizeModeKeep(mode) == mode

normalizeMode(mode) == IF mode = "stream" THEN "stream" ELSE "call"

\* Variant: the default role does not depend on the mode.
normalizeRoleParticipant(role, normalizedMode) ==
    IF FalsyStr(role) THEN "participant" ELSE role

normalizeRole(role, normalizedMode) ==
    IF FalsyStr(role)
    THEN (IF normalizedMode = "stream" THEN "viewer" ELSE "participant")
    ELSE role

\* Mutant: a join does not leave the previous room.
joinKeepPrevious(st, clientId, normalizedRoomId) == st

\* A client already in another room leaves it first.
joinLeavePrevious(st, clientId, normalizedRoomId) ==
    IF st.clients[clientId].roomId # Null
       /\ st.clients[clientId].roomId # normalizedRoomId
    THEN leaveRoom(st, clientId)
    ELSE st

\* Mutant: the mode of an existing room is not compared.
modeConflictNever(st, normalizedRoomId, normalizedMode) == FALSE

\* room && room.mode !== normalizedMode
modeConflict(st, normalizedRoomId, normalizedMode) ==
    /\ MapHas(st.rooms, normalizedRoomId)
    /\ st.rooms[normalizedRoomId].mode # normalizedMode

\* Create the room when missing, add the member, record room, mode and role.
joinAdd(st, clientId, normalizedRoomId, normalizedMode, normalizedRole) ==
    LET room == IF MapHas(st.rooms, normalizedRoomId)
                THEN st.rooms[normalizedRoomId]
                ELSE [mode |-> normalizedMode, clients |-> <<>>]
        joined == [room EXCEPT !.clients = SetAdd(@, clientId)]
    IN [st EXCEPT !.rooms = MapSet(@, normalizedRoomId, joined),
                  !.clients[clientId] =
                      [roomId |-> normalizedRoomId, mode |-> normalizedMode,
                       role |-> normalizedRole]]

\* Mutant: the requester is not filtered out of the participants.
joinParticipantsWithSelf(st, clientId, normalizedRoomId) ==
    LET known == SelectSeq(st.rooms[normalizedRoomId].clients,
                           LAMBDA id : MapHas(st.clients, id))
    IN [i \in 1..Len(known) |->
           [clientId |-> known[i], role |-> st.clients[known[i]].role]]

\* Array.from(room.clients).filter(other).map(id and role).filter(known)
joinParticipants(st, clientId, normalizedRoomId) ==
    LET others == SelectSeq(st.rooms[normalizedRoomId].clients,
                            LAMBDA id : id # clientId)
        known == SelectSeq(others, LAMBDA id : MapHas(st.clients, id))
    IN [i \in 1..Len(known) |->
           [clientId |-> known[i], role |-> st.clients[known[i]].role]]

\* Mutant: the others are told before the requester is answered.
joinNotifyOthersFirst(st, clientId, normalizedRoomId, normalizedMode, normalizedRole) ==
    LET s1 == broadcastRoom(st, normalizedRoomId, "peer-joined",
                            [clientId |-> clientId, role |-> normalizedRole], clientId)
    IN send(s1, clientId, "room-joined",
            [roomId |-> normalizedRoomId, mode |-> normalizedMode,
             role |-> normalizedRole,
             participants |-> joinParticipants(st, clientId, normalizedRoomId)])

\* room-joined to the requester, then peer-joined to the others.
joinNotify(st, clientId, normalizedRoomId, normalizedMode, normalizedRole) ==
    LET s1 == send(st, clientId, "room-joined",
                   [roomId |-> normalizedRoomId, mode |-> normalizedMode,
                    role |-> normalizedRole,
                    participants |-> joinParticipants(st, clientId, normalizedRoomId)])
    IN broadcastRoom(s1, normalizedRoomId, "peer-joined",
                     [clientId |-> clientId, role |-> normalizedRole], clientId)

handleJoinRoom(st, clientId, payload) ==
    IF joinRequiredMissing(payload)
    THEN send(st, clientId, "error",
              [message |-> "roomId and mode are required to join a room."])
    ELSE LET normalizedRoomId == String(payload.roomId)
             normalizedMode == normalizeMode(payload.mode)
             normalizedRole == normalizeRole(payload.role, normalizedMode)
         IN IF ~MapHas(st.clients, clientId) THEN st
            ELSE LET s1 == joinLeavePrevious(st, clientId, normalizedRoomId)
                 IN IF modeConflict(s1, normalizedRoomId, normalizedMode)
                    THEN send(s1, clientId, "error",
                              [message |-> "Room already exists with a different mode.",
                               expectedMode |-> s1.rooms[normalizedRoomId].mode,
                               receivedMode |-> normalizedMode])
                    ELSE joinNotify(
                             joinAdd(s1, clientId, normalizedRoomId,
                                     normalizedMode, normalizedRole),
                             clientId, normalizedRoomId, normalizedMode, normalizedRole)

(***************************************************************************)
(* signal, leave-room and the dispatcher.                                  *)
(***************************************************************************)
\* The relayed envelope carries the roomId as the sender wrote it.
signalMessage(clientId, payload) ==
    [roomId |-> payload.roomId, senderId |-> clientId, signal |-> payload.signal]

\* Variant: any registered sender may relay.
senderRegistered(st, clientId, roomId) == MapHas(st.clients, clientId)

\* !(!sender || sender.roomId !== String(roomId))
senderInRoom(st, clientId, roomId) ==
    /\ MapHas(st.clients, clientId)
    /\ st.clients[clientId].roomId = String(roomId)

\* Variant: any registered target is relayed to.
targetRegistered(st, targetClientId, roomId) == MapHas(st.clients, targetClientId)

\* !(!target || target.roomId !== String(roomId))
targetInRoom(st, targetClientId, roomId) ==
    /\ MapHas(st.clients, targetClientId)
    /\ st.clients[targetClientId].roomId = String(roomId)

\* Variant: a falsy signal is taken for a missing one (!signal).
signalFalsy(signal) == signal = Undefined \/ signal \in FalsySignals

\* typeof signal === 'undefined'
signalMissing(signal) == signal = Undefined

handleSignal(st, clientId, payload) ==
    IF Falsy(payload.roomId) \/ signalMissing(payload.signal)
    THEN send(st, clientId, "error",
              [message |-> "Signal payload must include roomId and signal data."])
    ELSE IF ~senderInRoom(st, clientId, payload.roomId)
    THEN send(st, clientId, "error",
              [message |-> "You are not part of the specified room."])
    ELSE IF payload.targetClientId # NoTarget
    THEN IF ~targetInRoom(st, payload.targetClientId, payload.roomId)
         THEN send(st, clientId, "error",
                   [message |-> "Target client is not part of this room."])
         ELSE safeSend(st, payload.targetClientId, "signal",
                       signalMessage(clientId, payload))
    ELSE broadcastRoom(st, String(payload.roomId), "signal",
                       signalMessage(clientId, payload), clientId)

\* Variant: room-left answers only a connection that was in a room.
handleLeaveRoomWhenJoined(st, clientId) ==
    IF MapHas(st.clients, clientId) /\ st.clients[clientId].roomId # Null
    THEN send(leaveRoom(st, clientId), clientId, "room-left", [empty |-> TRUE])
    ELSE st

handleLeaveRoom(st, clientId) ==
    send(leaveRoom(st, clientId), clientId, "room-left", [empty |-> TRUE])

\* payload || {}
payloadOrEmpty(payload) == IF payload = Undef THEN EmptyPayload ELSE payload

\* Variant: ping is not a known type.
dispatchWithoutPing(st, clientId, type, payload) ==
    CASE type = "join-room" -> handleJoinRoom(st, clientId, payloadOrEmpty(payload))
      [] type = "signal" -> handleSignal(st, clientId, payloadOrEmpty(payload))
      [] type = "leave-room" -> handleLeaveRoom(st, clientId)
      [] OTHER ->
             send(st, clientId, "error",
                  [message |-> "Unsupported message type: ", type |-> type])

\* switch (type)
dispatch(st, clientId, type, payload) ==
    CASE type = "join-room" -> handleJoinRoom(st, clientId, payloadOrEmpty(payload))
      [] type = "signal" -> handleSignal(st, clientId, payloadOrEmpty(payload))
      [] type = "leave-room" -> handleLeaveRoom(st, clientId)
      [] type = "ping" -> send(st, clientId, "pong", [timestamp |-> "now"])
      [] OTHER ->
             send(st, clientId, "error",
                  [message |-> "Unsupported message type: ", type |-> type])

\* Variant: a frame that is not an envelope ends the connection.
handleMessageStrict(st, clientId, rawMessage) ==
    IF ~rawMessage.json \/ ~rawMessage.object \/ rawMessage.type = Undefined
    THEN disconnectClient(
             send(st, clientId, "error", [message |-> "Message must be valid JSON."]),
             clientId)
    ELSE dispatch(st, clientId, rawMessage.type, rawMessage.payload)

handleMessage(st, clientId, rawMessage) ==
    IF ~rawMessage.json
    THEN send(st, clientId, "error", [message |-> "Message must be valid JSON."])
    ELSE IF ~rawMessage.object \/ rawMessage.type = Undefined
    THEN send(st, clientId, "error", [message |-> "Message must include a type field."])
    ELSE dispatch(st, clientId, rawMessage.type, rawMessage.payload)

(***************************************************************************)
(* The HTTP endpoints: GET /ice and POST /api/calls.                       *)
(***************************************************************************)
TURN_HOST == "turn.caller-siblings.ru"
TURN_REALM == "caller-siblings.ru"
ICE_TTL_SEC == 86400
ICE_CACHE_TTL_MS == 5 * 60 * 1000

\* A query value as the query parser hands it over: missing, a string, an
\* array of strings (a repeated parameter) or an object (a bracketed one).
QUndefined == [t |-> "undefined", s |-> "", a |-> <<>>]
QString(str) == [t |-> "string", s |-> str, a |-> <<>>]
QArray(arr) == [t |-> "array", s |-> "", a |-> arr]
QObject == [t |-> "object", s |-> "", a |-> <<>>]

RECURSIVE Repeat(_, _)
Repeat(str, n) == IF n = 0 THEN "" ELSE str \o Repeat(str, n - 1)

\* The uids of the requests: none, blank, with surrounding whitespace,
\* longer than the limit, and repeated.
X64 == Repeat("x", 64)
RawUids ==
    {QUndefined, QString(""), QString("  "), QString("web"),
     QString("alice"), QString(" alice\t"),
     QString(X64 \o "y"), QString(" " \o X64 \o "z"),
     QArray(<<"alice", "bob">>)}

\* The instants the clock is read at, in milliseconds.
Instants == {0, 999, 1000, 299999, 300000, 300999}

\* How many room ids /api/calls hands out in a run.
MaxCalls == 3

\* The longest a request handler runs between two readings of the clock,
\* in milliseconds.
MaxHandlerMillis == 1000

IsSpace(ch) == ch \in {" ", "\t", "\n"}

\* String.prototype.trim
RECURSIVE trim(_)
trim(str) ==
    IF str = "" THEN ""
    ELSE IF IsSpace(SubSeq(str, 1, 1)) THEN trim(SubSeq(str, 2, Len(str)))
    ELSE IF IsSpace(SubSeq(str, Len(str), Len(str))) THEN trim(SubSeq(str, 1, Len(str) - 1))
    ELSE str

\* String.prototype.slice(0, end)
slice(str, end) == SubSeq(str, 1, IF Len(str) < end THEN Len(str) ELSE end)

\* The string normalizeUid works on: the first element of an array, the
\* string itself, String(value) of any other value, nothing when missing.
rawUid(value) ==
    IF value.t = "array" THEN (IF value.a = <<>> THEN Undefined ELSE value.a[1])
    ELSE IF value.t = "string" THEN value.s
    ELSE IF value.t = "object" THEN "[object Object]"
    ELSE Undefined

\* Variant: the uid is cut before it is trimmed.
normalizeUidSliceFirst(value) ==
    LET raw == rawUid(value)
    IN IF FalsyStr(raw) THEN "web"
       ELSE IF trim(slice(raw, 64)) = "" THEN "web"
       ELSE trim(slice(raw, 64))

\* normalizeUid: the first element of an array, 'web' for nothing or blank,
\* else trimmed and cut to 64 characters.
normalizeUid(value) ==
    LET raw == rawUid(value)
    IN IF FalsyStr(raw) THEN "web"
       ELSE IF trim(raw) = "" THEN "web"
       ELSE slice(trim(raw), 64)

\* createHmac('sha1', secret).update(username).digest('base64'): a value
\* determined by the key and the data, different for different pairs.
createHmac(secret, data) == [hmac |-> "sha1", key |-> secret, data |-> data]

\* Variant: the expiry is counted in milliseconds.
buildIceResponseMillis(uid, secret, clock) ==
    LET expiry == clock + ICE_TTL_SEC
        username == ToString(expiry) \o ":" \o uid
        credential == createHmac(secret, username)
    IN [username |-> username, credential |-> credential,
        realm |-> TURN_REALM, ttl |-> ICE_TTL_SEC,
        iceServers |-> <<[urls |-> <<"stun:" \o TURN_HOST \o ":3478",
                                     "stun:" \o TURN_HOST \o ":80">>],
                         [urls |-> <<"turn:" \o TURN_HOST \o ":3478?transport=udp",
                                     "turn:" \o TURN_HOST \o ":3478?transport=tcp",
                                     "turns:" \o TURN_HOST \o ":443?transport=tcp">>,
                          username |-> username, credential |-> credential]>>]

\* buildIceResponse, with the clock it reads.
buildIceResponse(uid, secret, clock) ==
    LET expiry == (clock \div 1000) + ICE_TTL_SEC
        username == ToString(expiry) \o ":" \o uid
        credential == createHmac(secret, username)
    IN [username |-> username, credential |-> credential,
        realm |-> TURN_REALM, ttl |-> ICE_TTL_SEC,
        iceServers |-> <<[urls |-> <<"stun:" \o TURN_HOST \o ":3478",
                                     "stun:" \o TURN_HOST \o ":80">>],
                         [urls |-> <<"turn:" \o TURN_HOST \o ":3478?transport=udp",
                                     "turn:" \o TURN_HOST \o ":3478?transport=tcp",
                                     "turns:" \o TURN_HOST \o ":443?transport=tcp">>,
                          username |-> username, credential |-> credential]>>]

\* Variant: an entry is still served at the age of the window.
cacheFreshInclusive(cache, uid, clock) ==
    /\ MapHas(cache, uid)
    /\ clock - cache[uid].cachedAt <= ICE_CACHE_TTL_MS

\* Variant: a cached entry is never taken for fresh.
cacheFreshNever(cache, uid, clock) == FALSE

\* cached && now - cached.cachedAt < ICE_CACHE_TTL_MS
cacheFresh(cache, uid, clock) ==
    /\ MapHas(cache, uid)
    /\ clock - cache[uid].cachedAt < ICE_CACHE_TTL_MS

\* Variant: the secret is not checked.
secretMissingNever(secret) == FALSE

\* !TURN_SECRET
secretMissing(secret) == FalsyStr(secret)

\* The headers and the protocol of a POST /api/calls request.
CallRequests ==
    [host : {Undefined, "example.com"},
     forwardedProto : {Undefined, "", "https", "https,http", "http, https"},
     protocol : {"http", "https"}]

\* forwardedProto.split(',')[0]
firstValue(header) ==
    LET commas == {i \in 1..Len(header) : SubSeq(header, i, i) = ","}
    IN IF commas = {} THEN header
       ELSE SubSeq(header, 1, (CHOOSE i \in commas : \A j \in commas : i <= j) - 1)

\* Variant: the forwarded protocol is ignored.
callProtocolOfRequest(req) == req.protocol

\* forwardedProto ? forwardedProto.split(',')[0] : req.protocol || 'https'
callProtocol(req) ==
    IF ~FalsyStr(req.forwardedProto) THEN firstValue(req.forwardedProto)
    ELSE IF ~FalsyStr(req.protocol) THEN req.protocol ELSE "https"

\* host ? `${protocol}://${host}/call/${roomId}` : `/call/${roomId}`
callUrl(req, roomId) ==
    IF ~FalsyStr(req.host)
    THEN callProtocol(req) \o "://" \o req.host \o "/call/" \o roomId
    ELSE "/call/" \o roomId

NoExchange ==
    [route |-> "none", request |-> QUndefined, status |-> 0, body |-> <<>>,
     cacheRead |-> FALSE, at |-> 0]

(***************************************************************************)
(* The frontend: SignalingClient and the useSignalingRoom hook.            *)
(***************************************************************************)
\* window.location of the page and the VITE_SIGNALING_URL the bundle was
\* built with.
Pages ==
    {[protocol |-> "https:", host |-> "example.com", setting |-> ""],
     [protocol |-> "http:", host |-> "localhost:3000", setting |-> ""],
     [protocol |-> "http:", host |-> "localhost:3000", setting |-> "signaling.internal"],
     [protocol |-> "https:", host |-> "example.com", setting |-> "ws://custom.example.org"]}

DefaultPage == [protocol |-> "https:", host |-> "example.com", setting |-> ""]

\* SignalingClient.buildUrl
buildUrl(location) ==
    LET protocol == IF location.protocol = "https:" THEN "wss" ELSE "ws"
    IN protocol \o "://" \o location.host

\* The parameters of a join: those of the options, or with the room overridden.
JoinParamsSet ==
    {[roomId |-> r, mode |-> "call", role |-> "host"] : r \in {"test-room", "updated-room"}}

\* lastJoinParamsRef.current when no join is recorded: null.
NoJoin == [roomId |-> Null, mode |-> Null, role |-> Null]

\* What a run of reconnectedListener did, in order.
Invoked(name) == [e |-> name, payload |-> NoJoin, error |-> Null]
Sent(type, payload) == [e |-> "send:" \o type, payload |-> payload, error |-> Null]
Failed(error) == [e |-> "onReconnectionFailed", payload |-> NoJoin, error |-> error]

NoRun ==
    [atEvent |-> NoJoin, afterHandler |-> NoJoin, wasConnected |-> FALSE,
     connectFailed |-> FALSE, trace |-> <<>>, done |-> FALSE, left |-> FALSE]

\* The arguments of sendSignal.
Targets == {"peer-1", "peer-2"}
Signals == {"offer"}

\* What a call of joinRoom, leaveRoom or sendSignal met and did: the client
\* and the recorded join it found, what it threw and what it sent.
Frame(type, roomId, targetClientId, signal) ==
    [type |-> type, roomId |-> roomId, targetClientId |-> targetClientId,
     signal |-> signal]

NoCall ==
    [op |-> "none", target |-> Null, signal |-> Null, asked |-> NoJoin,
     client |-> FALSE,
     recorded |-> NoJoin, connected |-> FALSE, left |-> FALSE,
     threw |-> Null, sent |-> <<>>]

\* Before the first joinRoom: no client, nothing recorded, no listener running.
NoHook ==
    [client |-> FALSE, url |-> Null,
     connected |-> FALSE, opening |-> FALSE, waiters |-> <<>>,
     reconnectTimer |-> FALSE, emitted |-> FALSE,
     lastJoin |-> NoJoin, joining |-> NoJoin,
     pc |-> "idle", joinParams |-> NoJoin, run |-> NoRun,
     left |-> FALSE, call |-> NoCall]

\* SignalingClient.isConnected
isConnected(h) == h.connected

\* SignalingClient.connect when the socket is not open: the promise of the
\* socket being opened, shared by everyone who waits for it.
connect(h, who) == [h EXCEPT !.opening = TRUE, !.waiters = Append(@, who)]

\* What a call finds when it starts.
Calling(h, op, target, signal) ==
    [NoCall EXCEPT !.op = op, !.target = target, !.signal = signal,
                   !.client = h.client, !.recorded = h.lastJoin,
                   !.connected = h.client /\ isConnected(h), !.left = h.left]

\* Variant: sendSignal does not ask whether the client is connected.
sendSignalUnchecked(h, targetClientId, signal) ==
    LET call == Calling(h, "sendSignal", targetClientId, signal)
    IN IF ~h.client \/ h.lastJoin = NoJoin
       THEN [call EXCEPT !.threw = "no-room"]
       ELSE [call EXCEPT !.sent = <<Frame("signal", h.lastJoin.roomId,
                                             targetClientId, signal)>>]

\* sendSignal: throws without a client or a recorded join, throws when the
\* client is not connected, else sends one signal for the recorded room.
sendSignal(h, targetClientId, signal) ==
    LET call == Calling(h, "sendSignal", targetClientId, signal)
    IN IF ~h.client \/ h.lastJoin = NoJoin
       THEN [call EXCEPT !.threw = "no-room"]
       ELSE IF ~isConnected(h)
       THEN [call EXCEPT !.threw = "not-ready"]
       ELSE [call EXCEPT !.sent = <<Frame("signal", h.lastJoin.roomId,
                                             targetClientId, signal)>>]

\* leaveRoom: if (joined && client.isConnected()) send('leave-room', {})
leaveRoomSends(h) == h.lastJoin # NoJoin /\ isConnected(h)

\* leaveRoom: lastJoinParamsRef.current = null
leaveRoomForgets(h) == [h EXCEPT !.lastJoin = NoJoin]

\* Variant: the listener takes the client for connected.
reconnectNeedsConnectNever(h) == FALSE

\* if (!client.isConnected())
reconnectNeedsConnect(h) == ~isConnected(h)

\* reconnectedListener up to its first await: the context is made and
\* onReconnected is invoked.
reconnectedListener(h) ==
    [h EXCEPT !.pc = "handler", !.joinParams = NoJoin,
              !.run = [NoRun EXCEPT !.atEvent = h.lastJoin,
                                    !.left = h.left,
                                    !.trace = <<Invoked("onReconnected")>>]]

\* reconnectedListener when `await client.connect()` has settled: the
\* join-room is sent, or the rejection is handed to onReconnectionFailed.
reconnectedAfterConnect(h, opened, error) ==
    IF opened
    THEN [h EXCEPT !.pc = "idle",
                   !.run.trace = Append(@, Sent("join-room", h.joinParams)),
                   !.run.done = TRUE]
    ELSE [h EXCEPT !.pc = "idle",
                   !.run.connectFailed = TRUE,
                   !.run.trace = Append(@, Failed(error)),
                   !.run.done = TRUE]

\* reconnectedListener when onReconnected has settled: the recorded join is
\* read; without one the listener returns; else it connects first when the
\* client is not connected, and sends join-room. send throws when the
\* socket is not open, and the catch hands the error to onReconnectionFailed.
reconnectedAfterHandler(h) ==
    LET joinParams == h.lastJoin
        g == [h EXCEPT !.joinParams = joinParams,
                       !.run.afterHandler = joinParams,
                       !.run.wasConnected = isConnected(h)]
    IN IF joinParams = NoJoin
       THEN [g EXCEPT !.pc = "idle", !.run.done = TRUE]
       ELSE IF reconnectNeedsConnect(g)
       THEN [connect(g, "listener") EXCEPT !.pc = "connecting",
                                           !.run.trace = Append(@, Invoked("connect"))]
       ELSE IF isConnected(g)
       THEN [g EXCEPT !.pc = "idle",
                      !.run.trace = Append(@, Sent("join-room", joinParams)),
                      !.run.done = TRUE]
       ELSE [g EXCEPT !.pc = "idle",
                      !.run.trace = Append(@, Failed("not-ready")),
                      !.run.done = TRUE]

\* joinRoom when `await ensureClient()` has settled: the join is recorded
\* and sent, or joinRoom rejects.
joinAfterConnect(h, opened) ==
    IF opened THEN [h EXCEPT !.lastJoin = h.joining, !.joining = NoJoin]
    ELSE [h EXCEPT !.joining = NoJoin]

\* The continuations of what waited for the socket, in the order they waited.
RECURSIVE settle(_, _, _)
settle(h, waiters, opened) ==
    IF waiters = <<>> THEN h
    ELSE LET who == Head(waiters)
             g == IF who = "listener" THEN reconnectedAfterConnect(h, opened, "error-event")
                  ELSE IF who = "joinRoom" THEN joinAfterConnect(h, opened)
                  ELSE IF opened THEN [h EXCEPT !.emitted = TRUE]
                  ELSE h
         IN settle(g, Tail(waiters), opened)

(***************************************************************************)
(* SignalingClient on its own: the sockets it has made, each with its      *)
(* readyState and the promise made with it, and the timers it has set.     *)
(***************************************************************************)
MaxSockets == 5
MaxTimers == 4

SocketIds == 1..MaxSockets
TimerIds == 1..MaxTimers

\* What one step of the client did: the events it emitted, in order.
NoStep == [op |-> "none", socket |-> 0, emitted |-> <<>>, returned |-> 0]

\* A new SignalingClient: no socket (0 is null), no promise, no timer;
\* shouldReconnect = true, reconnectAttempts = 0. `awaited` are the promises
\* a timer callback waits for; `created`, `stopped` and `scheduled` are
\* history: the sockets made so far, whether close() was the last call of
\* the owner, and the reconnections scheduled since the last open.
NoClient ==
    [socket |-> 0, openPromise |-> 0, shouldReconnect |-> TRUE,
     reconnectAttempts |-> 0, reconnectTimer |-> 0, timers |-> {},
     readyState |-> [s \in SocketIds |-> "NONE"],
     promise |-> [s \in SocketIds |-> "none"],
     awaited |-> {}, created |-> 0, stopped |-> FALSE, scheduled |-> 0,
     step |-> NoStep]

Min(a, b) == IF a < b THEN a ELSE b

\* SignalingClient.emit
emit(c, type) == [c EXCEPT !.step.emitted = Append(@, type)]

\* clearTimeout(this.reconnectTimer); this.reconnectTimer = null
clearReconnectTimer(c) ==
    [c EXCEPT !.timers = {t \in @ : t.id # c.reconnectTimer},
              !.reconnectTimer = 0]

\* Variant: the delay is not capped.
reconnectDelayUncapped(attempts) == 1000 * 2 ^ attempts

\* Math.min(1000 * 2 ** this.reconnectAttempts, 10000)
reconnectDelay(attempts) == Min(1000 * 2 ^ attempts, 10000)

\* the second half of scheduleReconnect's guard: this.reconnectTimer
reconnectPending(c) == c.reconnectTimer # 0

\* SignalingClient.scheduleReconnect
scheduleReconnect(c) ==
    IF ~c.shouldReconnect \/ reconnectPending(c) THEN c
    ELSE LET delay == reconnectDelay(c.reconnectAttempts)
             id == CHOOSE t \in TimerIds : \A x \in c.timers : x.id # t
         IN [c EXCEPT !.reconnectAttempts = @ + 1,
                      !.reconnectTimer = id,
                      !.timers = @ \cup {[id |-> id, delay |-> delay]}]

\* SignalingClient.connect: nothing when the socket is open, the pending
\* promise when there is one, else a new WebSocket and its promise.
\* `returned` is the promise the caller gets, 0 for one already resolved.
clientConnect(c) ==
    IF c.socket # 0 /\ c.readyState[c.socket] = "OPEN"
    THEN [c EXCEPT !.step.returned = 0]
    ELSE IF c.openPromise # 0
    THEN [c EXCEPT !.step.returned = c.openPromise]
    ELSE LET s == c.created + 1
         IN [c EXCEPT !.shouldReconnect = TRUE,
                      !.socket = s, !.openPromise = s,
                      !.readyState[s] = "CONNECTING",
                      !.promise[s] = "pending",
                      !.created = s,
                      !.step.returned = s]

\* resolve() of the promise made with socket s, and the `.then` of a timer
\* callback that waits for it: emit('reconnected').
resolve(c, s) ==
    IF c.promise[s] # "pending" THEN c
    ELSE LET d == [c EXCEPT !.promise[s] = "resolved", !.awaited = @ \ {s}]
         IN IF s \in c.awaited THEN emit(d, "reconnected") ELSE d

\* reject(event) of the promise made with socket s.
reject(c, s) ==
    IF c.promise[s] # "pending" THEN c ELSE [c EXCEPT !.promise[s] = "rejected"]

\* The `.catch` of a timer callback that waited for the promise of s:
\* scheduleReconnect(); it runs once the listener that rejected has returned.
rejected(c, s) ==
    IF s \in c.awaited /\ c.promise[s] = "rejected"
    THEN scheduleReconnect([c EXCEPT !.awaited = @ \ {s}])
    ELSE c

\* The 'open' listener of socket s.
onOpen(c, s) ==
    resolve(clearReconnectTimer([emit(c, "open") EXCEPT !.reconnectAttempts = 0]), s)

\* The 'error' listener of socket s.
onError(c, s) ==
    LET d == [reject(emit(c, "error"), s) EXCEPT !.openPromise = 0]
    IN IF d.shouldReconnect
          /\ (d.socket = 0 \/ d.readyState[d.socket] # "OPEN")
       THEN scheduleReconnect(d) ELSE d

\* The 'close' listener of socket s.
onClose(c, s) ==
    LET d == [emit(c, "close") EXCEPT !.socket = 0, !.openPromise = 0]
    IN IF d.shouldReconnect THEN scheduleReconnect(d) ELSE d

\* SignalingClient.close: only when there is a socket.
clientClose(c) ==
    IF c.socket = 0 THEN c
    ELSE [clearReconnectTimer([c EXCEPT !.shouldReconnect = FALSE])
            EXCEPT !.readyState[c.socket] =
                       IF @ \in {"CONNECTING", "OPEN"} THEN "CLOSING" ELSE @,
                   !.socket = 0, !.openPromise = 0]

\* The callback of the reconnection timer: this.reconnectTimer = null, then
\* connect() with emit('reconnected') when it resolves.
reconnectTimerFired(c) ==
    LET d == clientConnect([c EXCEPT !.reconnectTimer = 0])
        p == d.step.returned
    IN IF p = 0 \/ d.promise[p] = "resolved" THEN emit(d, "reconnected")
       ELSE [d EXCEPT !.awaited = @ \cup {p}]

\* A step begins: the record of the last one is dropped.
Begin(c, op, s) == [c EXCEPT !.step = [NoStep EXCEPT !.op = op, !.socket = s]]

\* A step ends: the reconnections it scheduled are counted, from 0 again
\* after an open.
End(before, after) ==
    [after EXCEPT !.scheduled =
        (IF after.step.op = "open" THEN 0 ELSE before.scheduled)
        + Cardinality(after.timers \ before.timers)]

(***************************************************************************)
(* The events of the WebSocket server.                                     *)
(***************************************************************************)
NormalizedRoomIds == {String(r) : r \in RawRoomIds}

Init ==
    /\ clients = <<>>
    /\ rooms = [r \in {} |-> 0]
    /\ readyState = [c \in Ids |-> "CONNECTING"]
    /\ out = <<>>
    /\ last = NoEvent
    /\ lastEmptied = [roomId |-> Null, mode |-> NoMode]
    /\ wire = NoWire
    /\ TURN_SECRET = "s3cret"
    /\ iceResponseCache = <<>>
    /\ now = 0
    /\ uuids = 0
    /\ http = NoExchange
    /\ page = DefaultPage
    /\ hook = NoHook
    /\ signalingClient = NoClient

\* The same start with the history of the sockets kept.
InitOrder ==
    /\ clients = <<>>
    /\ rooms = [r \in {} |-> 0]
    /\ readyState = [c \in Ids |-> "CONNECTING"]
    /\ out = <<>>
    /\ last = NoEvent
    /\ lastEmptied = [roomId |-> Null, mode |-> NoMode]
    /\ wire = EmptyWire
    /\ TURN_SECRET = "s3cret"
    /\ iceResponseCache = <<>>
    /\ now = 0
    /\ uuids = 0
    /\ http = NoExchange
    /\ page = DefaultPage
    /\ hook = NoHook
    /\ signalingClient = NoClient

\* wssServer.on('connection'): register under a fresh id and send welcome.
OnConnection(clientId, thr) ==
    /\ last = NoEvent
    /\ last' = Event("connection", clientId, NoMessage, thr)
    /\ readyState[clientId] = "CONNECTING"
    /\ \A c \in Ids : c < clientId => readyState[c] # "CONNECTING"
    /\ readyState' = [readyState EXCEPT ![clientId] = "OPEN"]
    /\ LET st == State(readyState', thr)
           s1 == [st EXCEPT !.clients = MapSet(@, clientId,
                      [roomId |-> Null, mode |-> Null, role |-> Null])]
       IN Commit(safeSend(s1, clientId, "welcome", [clientId |-> clientId]))

\* socket.on('message'): the listener stays attached until the socket is closed.
OnMessage(clientId, rawMessage, thr) ==
    /\ last = NoEvent
    /\ last' = Event("message", clientId, rawMessage, thr)
    /\ readyState[clientId] \in {"OPEN", "CLOSING"}
    /\ UNCHANGED readyState
    /\ Commit(handleMessage(State(readyState, thr), clientId, rawMessage))

\* The peer starts closing, or the transport fails: the socket is no longer
\* OPEN, and its 'error' and 'close' events are still to come.
SocketClosing(clientId) ==
    /\ last = NoEvent
    /\ readyState[clientId] = "OPEN"
    /\ readyState' = [readyState EXCEPT ![clientId] = "CLOSING"]
    /\ UNCHANGED <<clients, rooms, out, last, lastEmptied, wire>>
    /\ UNCHANGED <<httpVars, frontVars>>

\* socket.on('error'): emitted once, before 'close', on a socket that is
\* no longer OPEN.
OnError(clientId, thr) ==
    /\ last = NoEvent
    /\ last' = Event("error", clientId, NoMessage, thr)
    /\ readyState[clientId] \in {"OPEN", "CLOSING"}
    /\ MapHas(clients, clientId)
    /\ readyState' = [readyState EXCEPT ![clientId] = "CLOSING"]
    /\ Commit(disconnectClient(State(readyState', thr), clientId))

\* socket.on('close'): emitted once, when the socket is CLOSED.
OnClose(clientId, thr) ==
    /\ last = NoEvent
    /\ last' = Event("close", clientId, NoMessage, thr)
    /\ readyState[clientId] \in {"OPEN", "CLOSING"}
    /\ readyState' = [readyState EXCEPT ![clientId] = "CLOSED"]
    /\ Commit(disconnectClient(State(readyState', thr), clientId))

\* The handler returns and its turn of the event loop ends.
Flush ==
    /\ last # NoEvent
    /\ last' = NoEvent
    /\ out' = <<>>
    /\ UNCHANGED <<clients, rooms, readyState, lastEmptied, wire>>
    /\ UNCHANGED <<httpVars, frontVars>>

Next ==
    \/ Flush
    \/ \E c \in Ids, thr \in NoThrow : c <= MaxJoiners /\ OnConnection(c, thr)
    \/ \E c \in Ids, m \in RawMessages, thr \in NoThrow : OnMessage(c, m, thr)
    \/ \E c \in Ids : SocketClosing(c)
    \/ \E c \in Ids, thr \in NoThrow : OnError(c, thr)
    \/ \E c \in Ids, thr \in NoThrow : OnClose(c, thr)

Spec == Init /\ [][Next]_vars

\* The same handlers with sends that may throw, over fewer kinds of frame.
NextDelivery ==
    \/ Flush
    \/ \E c \in Ids, thr \in ThrowSets : OnConnection(c, thr)
    \/ \E c \in Ids, m \in DeliveryMessages, thr \in ThrowSets : OnMessage(c, m, thr)
    \/ \E c \in Ids : SocketClosing(c)
    \/ \E c \in Ids, thr \in ThrowSets : OnError(c, thr)
    \/ \E c \in Ids, thr \in ThrowSets : OnClose(c, thr)

SpecDelivery == Init /\ [][NextDelivery]_vars

\* The same handlers over signals of every shape and the other frames.
NextRouting ==
    \/ Flush
    \/ \E c \in Ids, thr \in NoThrow : c <= MaxJoiners /\ OnConnection(c, thr)
    \/ \E c \in Ids, m \in RoutingMessages, thr \in NoThrow : OnMessage(c, m, thr)
    \/ \E c \in Ids : SocketClosing(c)
    \/ \E c \in Ids, thr \in NoThrow : OnError(c, thr)
    \/ \E c \in Ids, thr \in NoThrow : OnClose(c, thr)

SpecRouting == Init /\ [][NextRouting]_vars

\* The same handlers over the frames of one room, roles included.
NextPeers ==
    \/ Flush
    \/ \E c \in Ids, thr \in NoThrow : OnConnection(c, thr)
    \/ \E c \in Ids, m \in PeerMessages, thr \in NoThrow : OnMessage(c, m, thr)
    \/ \E c \in Ids : SocketClosing(c)
    \/ \E c \in Ids, thr \in NoThrow : OnError(c, thr)
    \/ \E c \in Ids, thr \in NoThrow : OnClose(c, thr)

SpecPeers == Init /\ [][NextPeers]_vars

\* The same handlers over presence frames, with the history of the sockets
\* kept for the first MaxEvents handlers that notify.
NextOrder ==
    \/ Flush
    \/ \E c \in Ids, thr \in NoThrow : OnConnection(c, thr)
    \/ \E c \in Ids, m \in OrderMessages, thr \in NoThrow :
          wire.seq < MaxEvents /\ OnMessage(c, m, thr)
    \/ \E c \in Ids : SocketClosing(c)
    \/ \E c \in Ids, thr \in NoThrow : wire.seq < MaxEvents /\ OnError(c, thr)
    \/ \E c \in Ids, thr \in NoThrow : wire.seq < MaxEvents /\ OnClose(c, thr)

SpecOrder == InitOrder /\ [][NextOrder]_vars

(***************************************************************************)
(* The events of the HTTP server.                                          *)
(***************************************************************************)
\* The process starts with or without a TURN secret in its environment.
InitHttp ==
    /\ clients = <<>>
    /\ rooms = [r \in {} |-> 0]
    /\ readyState = [c \in Ids |-> "CONNECTING"]
    /\ out = <<>>
    /\ last = NoEvent
    /\ lastEmptied = [roomId |-> Null, mode |-> NoMode]
    /\ wire = NoWire
    /\ TURN_SECRET \in {Undefined, "", "s3cret"}
    /\ iceResponseCache = <<>>
    /\ now = 0
    /\ uuids = 0
    /\ http = NoExchange
    /\ page = DefaultPage
    /\ hook = NoHook
    /\ signalingClient = NoClient

\* Time passes between two requests.
Tick(instant) ==
    /\ instant > now
    /\ now' = instant
    /\ UNCHANGED <<TURN_SECRET, iceResponseCache, uuids, http>>
    /\ UNCHANGED <<socketVars, frontVars>>

\* app.get('/ice'): the handler reads the clock, and buildIceResponse reads
\* it again (built) when the cache does not answer.
GetIce(uidParam, built) ==
    /\ built >= now
    /\ built - now <= MaxHandlerMillis
    /\ IF secretMissing(TURN_SECRET)
       THEN /\ built = now
            /\ http' = [route |-> "/ice", request |-> uidParam, status |-> 500,
                        body |-> [error |-> "TURN_SECRET not set"],
                        cacheRead |-> FALSE, at |-> now]
            /\ UNCHANGED <<iceResponseCache, now>>
       ELSE LET uid == normalizeUid(uidParam) IN
            IF cacheFresh(iceResponseCache, uid, now)
            THEN /\ built = now
                 /\ http' = [route |-> "/ice", request |-> uidParam, status |-> 200,
                             body |-> iceResponseCache[uid].response,
                             cacheRead |-> TRUE, at |-> now]
                 /\ UNCHANGED <<iceResponseCache, now>>
            ELSE LET response == buildIceResponse(uid, TURN_SECRET, built) IN
                 /\ iceResponseCache' =
                        MapSet(iceResponseCache, uid, [cachedAt |-> now, response |-> response])
                 /\ now' = built
                 /\ http' = [route |-> "/ice", request |-> uidParam, status |-> 200,
                             body |-> response, cacheRead |-> TRUE, at |-> now]
    /\ UNCHANGED <<TURN_SECRET, uuids>>
    /\ UNCHANGED <<socketVars, frontVars>>

\* app.post('/api/calls'): randomUUID() gives an id never given before.
PostCalls(req) ==
    /\ uuids < MaxCalls
    /\ uuids' = uuids + 1
    /\ LET roomId == "uuid-" \o ToString(uuids + 1) IN
       http' = [route |-> "/api/calls", request |-> req, status |-> 200,
                body |-> [roomId |-> roomId, url |-> callUrl(req, roomId)],
                cacheRead |-> FALSE, at |-> now]
    /\ UNCHANGED <<TURN_SECRET, iceResponseCache, now>>
    /\ UNCHANGED <<socketVars, frontVars>>

NextIce ==
    \/ \E instant \in Instants : Tick(instant)
    \/ \E uidParam \in RawUids, built \in Instants : GetIce(uidParam, built)

SpecIce == InitHttp /\ [][NextIce]_vars

NextCalls ==
    \/ \E instant \in Instants : Tick(instant)
    \/ \E req \in CallRequests : PostCalls(req)

SpecCalls == InitHttp /\ [][NextCalls]_vars

(***************************************************************************)
(* The events of the frontend.                                             *)
(***************************************************************************)
InitRoom ==
    /\ clients = <<>>
    /\ rooms = [r \in {} |-> 0]
    /\ readyState = [c \in Ids |-> "CONNECTING"]
    /\ out = <<>>
    /\ last = NoEvent
    /\ lastEmptied = [roomId |-> Null, mode |-> NoMode]
    /\ wire = NoWire
    /\ TURN_SECRET = "s3cret"
    /\ iceResponseCache = <<>>
    /\ now = 0
    /\ uuids = 0
    /\ http = NoExchange
    /\ page \in Pages
    /\ hook = NoHook
    /\ signalingClient = NoClient

\* joinRoom(override): ensureClient makes the client on first use and
\* connects; the join is recorded and sent when the client is connected.
JoinRoom(params) ==
    /\ hook.joining = NoJoin
    /\ LET h == [IF hook.client THEN hook
                 ELSE [hook EXCEPT !.client = TRUE, !.url = buildUrl(page)]
                   EXCEPT !.left = FALSE,
                          !.call = [Calling(hook, "joinRoom", Null, Null)
                                      EXCEPT !.asked = params]]
       IN hook' = IF isConnected(h) THEN [h EXCEPT !.lastJoin = params]
                  ELSE connect([h EXCEPT !.joining = params], "joinRoom")
    /\ UNCHANGED <<page, signalingClient, socketVars, httpVars>>

\* leaveRoom({close}): leave-room is sent when joined and connected, the
\* recorded join is forgotten; with close the listeners are detached and the
\* client is closed and dropped. The hook is unmounted when nothing of it
\* is in flight.
LeaveRoom(close) ==
    /\ hook.client
    /\ close => hook.pc = "idle" /\ hook.joining = NoJoin
    /\ LET call == [Calling(hook, "leaveRoom", Null, Null) EXCEPT !.sent =
                       IF leaveRoomSends(hook)
                       THEN <<Frame("leave-room", Null, Null, Null)>>
                       ELSE <<>>]
           h == [leaveRoomForgets(hook) EXCEPT !.left = TRUE, !.call = call]
       IN hook' = IF close
                  THEN [NoHook EXCEPT !.run = h.run, !.left = h.left,
                                      !.call = h.call]
                  ELSE h
    /\ UNCHANGED <<page, signalingClient, socketVars, httpVars>>

\* sendSignal(targetClientId, signal)
SendSignal(targetClientId, signal) ==
    /\ hook' = [hook EXCEPT !.call = sendSignal(hook, targetClientId, signal)]
    /\ UNCHANGED <<page, signalingClient, socketVars, httpVars>>

\* The socket opens: everyone who waited for it goes on.
SocketOpen ==
    /\ hook.opening
    /\ hook' = settle([hook EXCEPT !.connected = TRUE, !.opening = FALSE,
                                   !.waiters = <<>>, !.reconnectTimer = FALSE],
                      hook.waiters, TRUE)
    /\ UNCHANGED <<page, signalingClient, socketVars, httpVars>>

\* The socket fails to open ('error', then 'close'): the promise rejects and
\* a reconnection is scheduled.
SocketError ==
    /\ hook.opening
    /\ hook' = settle([hook EXCEPT !.opening = FALSE, !.waiters = <<>>,
                                   !.reconnectTimer = TRUE],
                      hook.waiters, FALSE)
    /\ UNCHANGED <<page, signalingClient, socketVars, httpVars>>

\* The open socket closes: a reconnection is scheduled.
SocketClose ==
    /\ hook.connected
    /\ hook' = [hook EXCEPT !.connected = FALSE, !.reconnectTimer = TRUE]
    /\ UNCHANGED <<page, signalingClient, socketVars, httpVars>>

\* The reconnection timer fires: connect(), and 'reconnected' when it resolves.
ReconnectTimer ==
    /\ hook.reconnectTimer
    /\ hook' = IF isConnected(hook)
               THEN [hook EXCEPT !.reconnectTimer = FALSE, !.emitted = TRUE]
               ELSE connect([hook EXCEPT !.reconnectTimer = FALSE], "timer")
    /\ UNCHANGED <<page, signalingClient, socketVars, httpVars>>

\* 'reconnected' reaches the listener of the hook; one run of the listener
\* at a time.
Reconnected ==
    /\ hook.emitted
    /\ hook.pc = "idle"
    /\ hook' = reconnectedListener([hook EXCEPT !.emitted = FALSE])
    /\ UNCHANGED <<page, signalingClient, socketVars, httpVars>>

\* onReconnected settles and the listener goes on.
HandlerSettled ==
    /\ hook.pc = "handler"
    /\ hook' = reconnectedAfterHandler(hook)
    /\ UNCHANGED <<page, signalingClient, socketVars, httpVars>>

NextRoom ==
    \/ \E params \in JoinParamsSet : JoinRoom(params)
    \/ \E close \in BOOLEAN : LeaveRoom(close)
    \/ \E targetClientId \in Targets, signal \in Signals :
          SendSignal(targetClientId, signal)
    \/ SocketOpen
    \/ SocketError
    \/ SocketClose
    \/ ReconnectTimer
    \/ Reconnected
    \/ HandlerSettled

SpecRoom == InitRoom /\ [][NextRoom]_vars

(***************************************************************************)
(* The events of a SignalingClient: the calls of its owner, the events of  *)
(* its sockets and its timers.                                             *)
(***************************************************************************)
InitClient ==
    /\ clients = <<>>
    /\ rooms = [r \in {} |-> 0]
    /\ readyState = [c \in Ids |-> "CONNECTING"]
    /\ out = <<>>
    /\ last = NoEvent
    /\ lastEmptied = [roomId |-> Null, mode |-> NoMode]
    /\ wire = NoWire
    /\ TURN_SECRET = "s3cret"
    /\ iceResponseCache = <<>>
    /\ now = 0
    /\ uuids = 0
    /\ http = NoExchange
    /\ page = DefaultPage
    /\ hook = NoHook
    /\ signalingClient = NoClient

\* Whether connect() would make a socket, and whether one is left to make.
MakesSocket(c) ==
    /\ ~(c.socket # 0 /\ c.readyState[c.socket] = "OPEN")
    /\ c.openPromise = 0

\* The owner calls connect().
Connect ==
    /\ MakesSocket(signalingClient) => signalingClient.created < MaxSockets
    /\ signalingClient' =
         End(signalingClient,
             [clientConnect(Begin(signalingClient, "connect", 0))
                EXCEPT !.stopped = FALSE])
    /\ UNCHANGED <<page, hook, socketVars, httpVars>>

\* The owner calls close().
Close ==
    /\ signalingClient' =
         End(signalingClient,
             [clientClose(Begin(signalingClient, "close", 0))
                EXCEPT !.stopped = TRUE])
    /\ UNCHANGED <<page, hook, socketVars, httpVars>>

\* A connecting socket opens.
SocketOpens(s) ==
    /\ signalingClient.readyState[s] = "CONNECTING"
    /\ signalingClient' =
         End(signalingClient,
             onOpen([Begin(signalingClient, "open", s)
                       EXCEPT !.readyState[s] = "OPEN"], s))
    /\ UNCHANGED <<page, hook, socketVars, httpVars>>

\* A socket that never opened is closed, by the network or after close():
\* 'error', then 'close'.
SocketFails(s) ==
    /\ \/ signalingClient.readyState[s] = "CONNECTING"
       \/ /\ signalingClient.readyState[s] = "CLOSING"
          /\ signalingClient.promise[s] # "resolved"
    /\ signalingClient' =
         End(signalingClient,
             onClose(rejected(onError([Begin(signalingClient, "fail", s)
                                         EXCEPT !.readyState[s] = "CLOSED"],
                                      s), s), s))
    /\ UNCHANGED <<page, hook, socketVars, httpVars>>

\* A socket that had opened is closed, by the peer (with or without an
\* 'error' before the 'close') or after close().
SocketCloses(s, withError) ==
    /\ \/ signalingClient.readyState[s] = "OPEN"
       \/ /\ signalingClient.readyState[s] = "CLOSING"
          /\ signalingClient.promise[s] = "resolved"
          /\ ~withError
    /\ LET c == [Begin(signalingClient, "closed", s)
                   EXCEPT !.readyState[s] = "CLOSED"]
       IN signalingClient' =
            End(signalingClient,
                onClose(IF withError THEN onError(c, s) ELSE c, s))
    /\ UNCHANGED <<page, hook, socketVars, httpVars>>

\* A timer fires.
TimerFires(t) ==
    /\ t \in signalingClient.timers
    /\ LET c == [Begin(signalingClient, "timer", 0) EXCEPT !.timers = @ \ {t}]
       IN /\ MakesSocket(c) => c.created < MaxSockets
          /\ signalingClient' = End(signalingClient, reconnectTimerFired(c))
    /\ UNCHANGED <<page, hook, socketVars, httpVars>>

NextClient ==
    \/ Connect
    \/ Close
    \/ \E s \in SocketIds : SocketOpens(s)
    \/ \E s \in SocketIds : SocketFails(s)
    \/ \E s \in SocketIds, withError \in BOOLEAN : SocketCloses(s, withError)
    \/ \E t \in signalingClient.timers : TimerFires(t)

SpecClient == InitClient /\ [][NextClient]_vars

(***************************************************************************)
(* Vocabulary of the properties.                                           *)
(***************************************************************************)
Members(R) == IF MapHas(rooms, R) THEN Elems(rooms[R].clients) ELSE {}

\* The positions of the sends of one type in a handler's output.
Sends(o, type) == {i \in 1..Len(o) : o[i].type = type}

IsModeConflict(msg) ==
    msg.type = "error" /\ "expectedMode" \in DOMAIN msg.payload

\* The handler that ran last was called for a frame of this type.
IsMessage(e, type) == e.op = "message" /\ e.message.json /\ e.message.type = type

\* The last frame was a join-room that passes the required-fields check.
IsValidJoin(e) ==
    /\ IsMessage(e, "join-room")
    /\ e.message.payload # Undef
    /\ ~Falsy(e.message.payload.roomId)
    /\ ~FalsyStr(e.message.payload.mode)

(***************************************************************************)
(* C1.  Room mode exclusivity: when room R exists with mode M, a join-room *)
(* for R whose normalized mode differs from M leaves R's member set and    *)
(* mode as they were, and a registered requester is sent an error naming   *)
(* both modes.                                                             *)
(***************************************************************************)
RoomModeExclusivity ==
    [][IsValidJoin(last') =>
          LET c == last'.clientId
              R == String(last'.message.payload.roomId)
              received == normalizeMode(last'.message.payload.mode)
          IN (MapHas(rooms, R) /\ rooms[R].mode # received)
             => /\ MapHas(rooms', R)
                /\ rooms'[R] = rooms[R]
                /\ MapHas(clients, c) =>
                     /\ Sends(out', "room-joined") = {}
                     /\ \E i \in 1..Len(out') :
                          /\ out'[i].to = c
                          /\ IsModeConflict(out'[i])
                          /\ out'[i].payload.expectedMode = rooms[R].mode
                          /\ out'[i].payload.receivedMode = received]_vars

\* A conflict error has just been sent to a connection that is not in the
\* room, and the room still has its members and its mode.
RoomModeExclusivityWitness ==
    /\ IsValidJoin(last)
    /\ \E i \in 1..Len(out) :
        LET R == String(last.message.payload.roomId) IN
        /\ IsModeConflict(out[i])
        /\ MapHas(rooms, R)
        /\ rooms[R].mode = out[i].payload.expectedMode
        /\ rooms[R].mode # out[i].payload.receivedMode
        /\ out[i].to \notin Members(R)
        /\ Members(R) # {}

(***************************************************************************)
(* C2.  A join-room rejected with a mode conflict changes nothing: the     *)
(* registry and every room are the same after the request as before it,    *)
(* also when the requester was a member of another room.                   *)
(***************************************************************************)
RejectedJoinChangesNothing ==
    [][(IsValidJoin(last') /\ \E i \in 1..Len(out') : IsModeConflict(out'[i]))
          => clients' = clients /\ rooms' = rooms]_vars

NoDanglingRoomReference ==
    \A c \in DOMAIN clients :
        clients[c].roomId # Null =>
            /\ MapHas(rooms, clients[c].roomId)
            /\ c \in Members(clients[c].roomId)
            /\ rooms[clients[c].roomId].mode = clients[c].mode

\* Room R was emptied and deleted, a join has just created it again, and
\* the joiner points at the new room while another connection is still
\* registered outside it.
NoDanglingRoomReferenceWitness ==
    /\ IsValidJoin(last)
    /\ lastEmptied.roomId = String(last.message.payload.roomId)
    /\ MapHas(clients, last.clientId)
    /\ clients[last.clientId].roomId = lastEmptied.roomId
    /\ Members(lastEmptied.roomId) = {last.clientId}
    /\ \E d \in DOMAIN clients : d # last.clientId /\ clients[d].roomId = Null

(***************************************************************************)
(* C7.  A successful join-room: the requester is sent one room-joined      *)
(* whose participants are exactly the other members of the room, each with *)
(* its recorded role, never the requester; every other member is sent one  *)
(* peer-joined with the requester's id and role, and nobody else is.       *)
(* "Is sent" is the server's send to that connection's socket; the socket  *)
(* takes it when it is OPEN (the best-effort rule of safeSend).            *)
(***************************************************************************)
JoinNotifications ==
    [][IsValidJoin(last') =>
          LET c == last'.clientId
              R == String(last'.message.payload.roomId)
              mode == normalizeMode(last'.message.payload.mode)
          IN (MapHas(clients, c) /\ ~(MapHas(rooms, R) /\ rooms[R].mode # mode))
             => LET others == Elems(rooms'[R].clients) \ {c}
                    role == clients'[c].role
                    joined == Sends(out', "room-joined")
                IN /\ c \in Elems(rooms'[R].clients)
                   /\ Cardinality(joined) = 1
                   /\ \A i \in joined :
                        LET ps == out'[i].payload.participants IN
                        /\ out'[i].to = c
                        /\ out'[i].payload.role = role
                        /\ {ps[k].clientId : k \in 1..Len(ps)} = others
                        /\ Len(ps) = Cardinality(others)
                        /\ \A k \in 1..Len(ps) :
                             ps[k].role = clients'[ps[k].clientId].role
                   /\ \A d \in others :
                        Cardinality({j \in Sends(out', "peer-joined") :
                            /\ out'[j].to = d
                            /\ out'[j].payload = [clientId |-> c, role |-> role]}) = 1
                   /\ Cardinality(Sends(out', "peer-joined")) = Cardinality(others)
                   /\ \A j \in 1..Len(out') :
                        out'[j].status = "sent" <=> readyState'[out'[j].to] = "OPEN"]_vars

\* A third connection has just joined a room whose two members have
\* different roles: its room-joined lists both, and both were told.
JoinNotificationsWitness ==
    /\ IsValidJoin(last)
    /\ \E i \in Sends(out, "room-joined") :
        LET ps == out[i].payload.participants IN
        /\ Len(ps) = 2
        /\ ps[1].role # ps[2].role
        /\ ps[1].role # out[i].payload.role
    /\ Cardinality(Sends(out, "peer-joined")) = 2

(***************************************************************************)
(* C8.  In the output of a join, room-joined to the joiner comes before    *)
(* every peer-joined that announces the joiner.                            *)
(***************************************************************************)
ConfirmationBeforeBroadcast ==
    \A i, j \in 1..Len(out) :
        (/\ out[i].type = "room-joined"
         /\ out[j].type = "peer-joined"
         /\ out[j].payload.clientId = out[i].to)
        => i < j

\* A join that was both confirmed and announced.
ConfirmationBeforeBroadcastWitness ==
    /\ IsValidJoin(last)
    /\ \E i \in Sends(out, "room-joined"), j \in Sends(out, "peer-joined") :
        out[j].payload.clientId = out[i].to /\ out[j].to # out[i].to

(***************************************************************************)
(* C9.  Self-exclusion in broadcast.  The three broadcasts of a handler    *)
(* called for connection x: an untargeted signal from member x of room R,  *)
(* the peer-joined of x's join, the peer-left of x's leave or disconnect.  *)
(***************************************************************************)
\* The broadcasts of the step, as (type, the members of the room besides x).
Broadcasts(x) ==
    (IF /\ IsMessage(last', "signal")
        /\ MapHas(clients, x)
        /\ last'.message.payload # Undef
        /\ ~Falsy(last'.message.payload.roomId)
        /\ last'.message.payload.signal # Undefined
        /\ last'.message.payload.targetClientId = NoTarget
        /\ clients[x].roomId = String(last'.message.payload.roomId)
     THEN {<<"signal", Members(clients[x].roomId) \ {x}>>} ELSE {})
    \cup
    (IF Sends(out', "room-joined") # {}
     THEN {<<"peer-joined", Elems(rooms'[clients'[x].roomId].clients) \ {x}>>} ELSE {})
    \cup
    (IF /\ MapHas(clients, x)
        /\ clients[x].roomId # Null
        /\ (MapHas(clients', x) => clients'[x].roomId # clients[x].roomId)
     THEN {<<"peer-left", Members(clients[x].roomId) \ {x}>>} ELSE {})

Addressed(o, type) == {o[i].to : i \in Sends(o, type)}
Received(o, type) == {o[i].to : i \in {k \in Sends(o, type) : o[k].status = "sent"}}

\* C9 as stated: a broadcast on behalf of a sender in a room of N members
\* is received by exactly the N-1 other members.
BroadcastReceivedByAllOthers ==
    [][last'.op # "none" =>
          \A b \in Broadcasts(last'.clientId) :
              Received(out', b[1]) = b[2]]_vars

\* C9 as the code has it: the broadcast is handed to safeSend once for each
\* of the N-1 other members and for nobody else, never for the sender; the
\* members that receive it are those whose socket is OPEN and whose send()
\* does not throw.
BroadcastAddressedToAllOthers ==
    [][last'.op # "none" =>
          \A b \in Broadcasts(last'.clientId) :
              /\ Addressed(out', b[1]) = b[2]
              /\ Cardinality(Sends(out', b[1])) = Cardinality(b[2])
              /\ Received(out', b[1]) =
                   {d \in b[2] : readyState'[d] = "OPEN" /\ d \notin last'.throws}]_vars

\* A broadcast in a room of three has just reached one of the two other
\* members and missed the other.
BroadcastAddressedToAllOthersWitness ==
    /\ last.op # "none"
    /\ \E i, j \in 1..Len(out) :
        /\ out[i].type = out[j].type
        /\ out[i].type \in {"signal", "peer-joined", "peer-left"}
        /\ out[i].to # out[j].to
        /\ out[i].status = "sent"
        /\ out[j].status # "sent"
        /\ last.clientId \notin {out[i].to, out[j].to}

SignalOf(e) == payloadOrEmpty(e.message.payload)

\* The step handled a signal frame that states a room id.
IsSignalFor(e) == IsMessage(e, "signal") /\ ~Falsy(SignalOf(e).roomId)

\* The sender of the step is registered and its room is the stated one.
InStatedRoom(x, p) == MapHas(clients, x) /\ clients[x].roomId = String(p.roomId)

IsError(msg, text) == msg.type = "error" /\ msg.payload = [message |-> text]

(***************************************************************************)
(* C11.  A signal whose stated roomId is not the sender's current room     *)
(* (sender in no room, in another room, or unregistered) is not relayed.   *)
(***************************************************************************)
\* C11 as stated: nothing goes to a connection other than the sender, the
\* sender is sent an error, and the registry and the rooms do not change.
SignalOutsideRoomAnswered ==
    [][IsSignalFor(last') =>
          LET x == last'.clientId
              p == SignalOf(last')
          IN ~InStatedRoom(x, p)
             => /\ \A i \in 1..Len(out') : out'[i].to = x
                /\ \E i \in 1..Len(out') : out'[i].type = "error"
                /\ clients' = clients /\ rooms' = rooms]_vars

\* C11 as the code has it: the error goes to a sender that is registered,
\* and it is the only send of the handler; an unregistered sender has no
\* socket in the registry and is sent nothing.
SignalOutsideRoomNotRelayed ==
    [][IsSignalFor(last') =>
          LET x == last'.clientId
              p == SignalOf(last')
          IN ~InStatedRoom(x, p)
             => /\ clients' = clients /\ rooms' = rooms
                /\ Sends(out', "signal") = {}
                /\ ~MapHas(clients, x) => out' = <<>>
                /\ MapHas(clients, x) =>
                     /\ Len(out') = 1
                     /\ out'[1].to = x
                     /\ out'[1].type = "error"
                     /\ p.signal # Undefined =>
                          IsError(out'[1], "You are not part of the specified room.")]_vars

\* A member of one room has just addressed a signal to a member of another
\* room, naming that room: it got the error and the target got nothing.
SignalOutsideRoomNotRelayedWitness ==
    /\ IsSignalFor(last)
    /\ LET x == last.clientId
           p == SignalOf(last)
       IN /\ MapHas(clients, x)
          /\ clients[x].roomId \notin {Null, String(p.roomId)}
          /\ p.targetClientId \in Members(String(p.roomId))
          /\ readyState[p.targetClientId] = "OPEN"
          /\ p.signal # Undefined
          /\ Len(out) = 1
          /\ out[1].to = x
          /\ IsError(out[1], "You are not part of the specified room.")

SignalPresenceOnly ==
    [][(IsMessage(last', "signal") /\ MapHas(clients, last'.clientId)) =>
          LET x == last'.clientId
              p == SignalOf(last')
              required == "Signal payload must include roomId and signal data."
              asOffer == handleSignal(State(readyState, {}), x,
                                      [p EXCEPT !.signal = "offer"]).out
          IN /\ (\E i \in 1..Len(out') : IsError(out'[i], required))
                  <=> (Falsy(p.roomId) \/ p.signal = Undefined)
             /\ p.signal # Undefined =>
                  /\ Len(out') = Len(asOffer)
                  /\ \A i \in 1..Len(out') :
                       /\ out'[i].to = asOffer[i].to
                       /\ out'[i].type = asOffer[i].type
                       /\ out'[i].status = asOffer[i].status
                       /\ out'[i].payload =
                            IF out'[i].type = "signal"
                            THEN [asOffer[i].payload EXCEPT !.signal = p.signal]
                            ELSE asOffer[i].payload]_vars

\* A falsy signal value has just been relayed to another member.
SignalPresenceOnlyWitness ==
    /\ IsMessage(last, "signal")
    /\ SignalOf(last).signal \in FalsySignals
    /\ \E i \in Sends(out, "signal") :
        /\ out[i].to # last.clientId
        /\ out[i].status = "sent"
        /\ out[i].payload.signal = SignalOf(last).signal
        /\ out[i].payload.senderId = last.clientId

IsMalformed(e) ==
    /\ e.op = "message"
    /\ (~e.message.json \/ ~e.message.object \/ e.message.type = Undefined)

MalformedAnswered ==
    [][(IsMalformed(last') /\ MapHas(clients, last'.clientId)) =>
          /\ Len(out') = 1
          /\ out'[1].to = last'.clientId
          /\ IsError(out'[1],
                     IF last'.message.json
                     THEN "Message must include a type field."
                     ELSE "Message must be valid JSON.")
          /\ clients' = clients
          /\ rooms' = rooms
          /\ readyState' = readyState]_vars

\* A member of a room shared with another has just sent text that is not
\* JSON: it got the error, it is still in the room, the other got nothing.
MalformedAnsweredWitness ==
    /\ IsMalformed(last)
    /\ ~last.message.json
    /\ MapHas(clients, last.clientId)
    /\ clients[last.clientId].roomId # Null
    /\ Cardinality(Members(clients[last.clientId].roomId)) >= 2
    /\ readyState[last.clientId] = "OPEN"
    /\ Len(out) = 1
    /\ out[1].to = last.clientId
    /\ out[1].status = "sent"
    /\ IsError(out[1], "Message must be valid JSON.")

(***************************************************************************)
(* C17.  From a registered connection, a ping envelope is answered with    *)
(* one pong to the sender and an envelope of an unrecognized type with one *)
(* error naming the type to the sender; nothing else is sent and the       *)
(* registry and the rooms are left as they were.                           *)
(***************************************************************************)
KnownTypes == {"join-room", "signal", "leave-room", "ping"}

PingAndUnknownType ==
    [][(last'.op = "message" /\ ~IsMalformed(last') /\ MapHas(clients, last'.clientId)
        /\ last'.message.type \notin {"join-room", "signal", "leave-room"}) =>
          /\ Len(out') = 1
          /\ out'[1].to = last'.clientId
          /\ IF last'.message.type = "ping"
             THEN /\ out'[1].type = "pong"
                  /\ DOMAIN out'[1].payload = {"timestamp"}
             ELSE /\ out'[1].type = "error"
                  /\ out'[1].payload = [message |-> "Unsupported message type: ",
                                        type |-> last'.message.type]
          /\ clients' = clients
          /\ rooms' = rooms]_vars

\* A member of a room shared with another has just sent an envelope of an
\* unknown type that carries a signal payload: it got the error naming the
\* type, and the other member got nothing.
PingAndUnknownTypeWitness ==
    /\ last.op = "message"
    /\ ~IsMalformed(last)
    /\ last.message.type \notin KnownTypes
    /\ last.message.payload # Undef
    /\ MapHas(clients, last.clientId)
    /\ clients[last.clientId].roomId = String(last.message.payload.roomId)
    /\ Cardinality(Members(clients[last.clientId].roomId)) >= 2
    /\ Len(out) = 1
    /\ out[1].to = last.clientId
    /\ out[1].status = "sent"
    /\ out[1].type = "error"
    /\ out[1].payload.type = last.message.type

(***************************************************************************)
(* C18.  Delivery is best-effort per recipient: in a room broadcast, a     *)
(* recipient whose socket is not OPEN or whose send() throws misses the    *)
(* message, every other member besides the sender whose socket is OPEN     *)
(* still receives it, the handler changes the registry and the rooms as it *)
(* does when no send fails, and no error is sent about the miss.           *)
(***************************************************************************)
\* The registry and the rooms the handler of event e leaves when no send()
\* throws.
Undisturbed(e) ==
    LET st == State(readyState', {})
        s1 == IF e.op = "message" THEN handleMessage(st, e.clientId, e.message)
              ELSE disconnectClient(st, e.clientId)
    IN <<s1.clients, s1.rooms, Len(s1.out)>>

BestEffortBroadcast ==
    [][last'.op \in {"message", "close", "error"} =>
          \A b \in Broadcasts(last'.clientId) :
              /\ \A d \in b[2] :
                   IF readyState'[d] = "OPEN" /\ d \notin last'.throws
                   THEN \E i \in Sends(out', b[1]) :
                            out'[i].to = d /\ out'[i].status = "sent"
                   ELSE \A i \in Sends(out', b[1]) :
                            out'[i].to = d => out'[i].status # "sent"
              /\ Sends(out', "error") = {}
              /\ <<clients', rooms', Len(out')>> = Undisturbed(last')]_vars

\* In a broadcast to two members, the send to the first has just thrown
\* and the second still received the message.
BestEffortBroadcastWitness ==
    /\ last.op \in {"message", "close", "error"}
    /\ \E i, j \in 1..Len(out) :
        /\ i < j
        /\ out[i].type = out[j].type
        /\ out[i].type \in {"signal", "peer-joined", "peer-left"}
        /\ out[i].status = "threw"
        /\ out[j].status = "sent"
        /\ out[i].to \in last.throws
        /\ last.clientId \notin {out[i].to, out[j].to}
        /\ Sends(out, "error") = {}

PermissiveMode ==
    [][(IsValidJoin(last') /\ MapHas(clients, last'.clientId)
        /\ last'.message.payload.mode # "stream") =>
          LET c == last'.clientId
              p == last'.message.payload
              R == String(p.roomId)
              asCall == handleJoinRoom(State(readyState, {}), c, [p EXCEPT !.mode = "call"])
              errors == Sends(out', "error")
          IN /\ out' = asCall.out
             /\ clients' = asCall.clients
             /\ rooms' = asCall.rooms
             /\ \A i \in errors : IsModeConflict(out'[i])
             /\ IF MapHas(rooms, R) /\ rooms[R].mode = "stream"
                THEN /\ Cardinality(errors) = 1
                     /\ \A i \in errors :
                          /\ out'[i].to = c
                          /\ out'[i].payload.expectedMode = "stream"
                          /\ out'[i].payload.receivedMode = "call"
                     /\ Sends(out', "room-joined") = {}
                ELSE /\ errors = {}
                     /\ MapHas(rooms', R)
                     /\ rooms'[R].mode = "call"
                     /\ c \in Elems(rooms'[R].clients)
                     /\ clients'[c].mode = "call"
                     /\ \E i \in Sends(out', "room-joined") :
                          out'[i].to = c /\ out'[i].payload.mode = "call"]_vars

\* A join with mode 'chat' has just been rejected by a 'stream' room with
\* receivedMode 'call'.
PermissiveModeWitness ==
    /\ IsValidJoin(last)
    /\ last.message.payload.mode = "chat"
    /\ \E i \in 1..Len(out) :
        /\ IsModeConflict(out[i])
        /\ out[i].to = last.clientId
        /\ out[i].payload.expectedMode = "stream"
        /\ out[i].payload.receivedMode = "call"
        /\ MapHas(rooms, String(last.message.payload.roomId))
        /\ rooms[String(last.message.payload.roomId)].mode = "stream"

(***************************************************************************)
(* C22.  After a successful join the recorded role is the supplied role,   *)
(* or, when none is supplied (absent or empty), 'viewer' for mode 'stream' *)
(* and 'participant' otherwise; room-joined and peer-joined carry the      *)
(* recorded role, and every participants list carries the recorded role of *)
(* each member it names.                                                   *)
(***************************************************************************)
RoleDefaults ==
    [][(IsValidJoin(last') /\ Sends(out', "room-joined") # {}) =>
          LET c == last'.clientId
              p == last'.message.payload
              expected == IF p.role \in {Undefined, ""}
                          THEN (IF p.mode = "stream" THEN "viewer" ELSE "participant")
                          ELSE p.role
          IN /\ clients'[c].role = expected
             /\ \A i \in Sends(out', "room-joined") :
                  /\ out'[i].payload.role = expected
                  /\ \A k \in 1..Len(out'[i].payload.participants) :
                       LET member == out'[i].payload.participants[k] IN
                       /\ member.role = clients'[member.clientId].role
                       /\ member.role = clients[member.clientId].role
             /\ \A i \in Sends(out', "peer-joined") :
                  out'[i].payload = [clientId |-> c, role |-> expected]]_vars

\* A connection has just joined a 'stream' room with an empty role: it is
\* a viewer, and the host that was in the room was told so.
RoleDefaultsWitness ==
    /\ IsValidJoin(last)
    /\ last.message.payload.role = ""
    /\ last.message.payload.mode = "stream"
    /\ MapHas(clients, last.clientId)
    /\ clients[last.clientId].role = "viewer"
    /\ \E i \in Sends(out, "room-joined") :
        /\ out[i].payload.role = "viewer"
        /\ Len(out[i].payload.participants) = 1
        /\ out[i].payload.participants[1].role = "host"
    /\ \E i \in Sends(out, "peer-joined") : out[i].payload.role = "viewer"

(***************************************************************************)
(* C23.  A join-room without a roomId or without a mode, from a registered *)
(* connection: the handler's only send is the required-fields error to the *)
(* requester, and the registry and the rooms are as they were.             *)
(***************************************************************************)
JoinRequiresFields ==
    [][(IsMessage(last', "join-room") /\ ~IsValidJoin(last')
        /\ MapHas(clients, last'.clientId)) =>
          /\ Len(out') = 1
          /\ out'[1].to = last'.clientId
          /\ IsError(out'[1], "roomId and mode are required to join a room.")
          /\ clients' = clients
          /\ rooms' = rooms]_vars

\* A member of a room shared with another has just asked to join another
\* room without a mode: it got the error and is where it was.
JoinRequiresFieldsWitness ==
    /\ IsMessage(last, "join-room")
    /\ ~IsValidJoin(last)
    /\ last.message.payload # Undef
    /\ ~Falsy(last.message.payload.roomId)
    /\ MapHas(clients, last.clientId)
    /\ clients[last.clientId].roomId \notin {Null, String(last.message.payload.roomId)}
    /\ Cardinality(Members(clients[last.clientId].roomId)) >= 2
    /\ ~MapHas(rooms, String(last.message.payload.roomId))
    /\ Len(out) = 1
    /\ IsError(out[1], "roomId and mode are required to join a room.")

(***************************************************************************)
(* Vocabulary of the HTTP properties.                                      *)
(***************************************************************************)
\* The step is a GET /ice that was answered.
IceAnswered == http' # http /\ http'.route = "/ice"

\* The step is a POST /api/calls that was answered.
CallAnswered == http' # http /\ http'.route = "/api/calls"

SecretConfigured == TURN_SECRET \notin {Undefined, ""}

\* C24: without a shared secret every GET /ice is answered 500 with the
\* body {error: 'TURN_SECRET not set'}, whatever the uid, and the credential
\* cache is neither read nor written.
IceWithoutSecret ==
    ~SecretConfigured =>
        /\ iceResponseCache = <<>>
        /\ http.route = "/ice" =>
              /\ http.status = 500
              /\ http.body = [error |-> "TURN_SECRET not set"]
              /\ ~http.cacheRead

IceWithoutSecretWitness ==
    /\ TURN_SECRET = ""
    /\ http.route = "/ice"
    /\ http.request = QString(" alice\t")
    /\ http.status = 500
    /\ now = 300000

\* The window of the credential cache: five minutes, in milliseconds.
CacheWindow == 5 * 60 * 1000

\* The entry of the uid is inside the cache window at the instant of the request.
InWindow(cache, uid, at) == uid \in DOMAIN cache /\ at - cache[uid].cachedAt < CacheWindow

\* C25: a GET /ice made less than five minutes after the entry of its
\* normalized uid was computed returns the username and the credential of
\* that entry and leaves the entry as it is; every answered request has an
\* entry of its own, with what it returned, and the username of an entry
\* differs from the username of every other uid's entry.
CacheConsistency ==
    [][(IceAnswered /\ http'.status = 200) =>
        \A uid \in {normalizeUid(http'.request)} :
        /\ InWindow(iceResponseCache, uid, http'.at) =>
              /\ http'.body.username = iceResponseCache[uid].response.username
              /\ http'.body.credential = iceResponseCache[uid].response.credential
              /\ iceResponseCache' = iceResponseCache
        /\ uid \in DOMAIN iceResponseCache'
        /\ iceResponseCache'[uid].response = http'.body
        /\ \A other \in DOMAIN iceResponseCache' \ {uid} :
              /\ iceResponseCache'[other] = iceResponseCache[other]
              /\ iceResponseCache'[other].response.username # http'.body.username
              /\ iceResponseCache'[other].response.credential # http'.body.credential]_vars

\* A request 299999 ms after the entry was computed is answered from it,
\* while another uid has an entry of its own.
CacheConsistencyWitness ==
    /\ http.route = "/ice"
    /\ http.status = 200
    /\ http.request = QString(" alice\t")
    /\ http.at = 299999
    /\ "alice" \in DOMAIN iceResponseCache
    /\ iceResponseCache["alice"].cachedAt = 0
    /\ http.body = iceResponseCache["alice"].response
    /\ "web" \in DOMAIN iceResponseCache
    /\ iceResponseCache["web"].cachedAt = 1000

\* The step computed a response: the cache did not answer.
IceMiss == IceAnswered /\ http'.status = 200 /\ iceResponseCache' # iceResponseCache

\* C26: on a cache miss the expiry is the clock in whole seconds plus the
\* ttl, the username is '<expiry>:<normalized uid>', the credential is the
\* HMAC of the username under the secret, and there are exactly two ICE
\* servers: a STUN entry with urls only and a TURN entry with the username
\* and the credential of the response.
IceResponseShape ==
    [][IceMiss =>
        LET body == http'.body
            expiry == (now' \div 1000) + 86400
        IN
        /\ body.username = ToString(expiry) \o ":" \o normalizeUid(http'.request)
        /\ body.credential = createHmac(TURN_SECRET, body.username)
        /\ body.ttl = 86400
        /\ Len(body.iceServers) = 2
        /\ DOMAIN body.iceServers[1] = {"urls"}
        /\ \A i \in 1..2 : SubSeq(body.iceServers[1].urls[i], 1, 5) = "stun:"
        /\ DOMAIN body.iceServers[2] = {"urls", "username", "credential"}
        /\ \A i \in 1..3 : SubSeq(body.iceServers[2].urls[i], 1, 4) = "turn"
        /\ body.iceServers[2].username = body.username
        /\ body.iceServers[2].credential = body.credential]_vars

\* A response computed at 300999 ms: the expiry is 300 + 86400 seconds.
IceResponseShapeWitness ==
    /\ http.route = "/ice"
    /\ http.status = 200
    /\ http.request = QUndefined
    /\ now = 300999
    /\ "web" \in DOMAIN iceResponseCache
    /\ iceResponseCache["web"].cachedAt = 300000
    /\ http.body = iceResponseCache["web"].response
    /\ http.body.username = "86700:web"

\* The string a query value stands for: the first of a repeated parameter.
GivenUid(q) ==
    IF q.t = "string" THEN q.s
    ELSE IF q.t = "array" /\ q.a # <<>> THEN q.a[1]
    ELSE IF q.t = "object" THEN "[object Object]"
    ELSE ""

\* The identity a query value is sanitized to: what lies between its first
\* and its last character that is not white space, at most 64 characters of
\* it, and 'web' when there is no such character.
Sanitized(q) ==
    LET r == GivenUid(q)
        Blank(i) == SubSeq(r, i, i) \in {" ", "\t", "\n"}
    IN IF \A i \in 1..Len(r) : Blank(i) THEN "web"
       ELSE LET lo == CHOOSE i \in 1..Len(r) : ~Blank(i) /\ \A j \in 1..(i - 1) : Blank(j)
                hi == CHOOSE i \in 1..Len(r) : ~Blank(i) /\ \A j \in (i + 1)..Len(r) : Blank(j)
            IN SubSeq(r, lo, IF hi - lo + 1 > 64 THEN lo + 63 ELSE hi)

\* The part of a username after its first colon.
AfterColon(username) ==
    LET colons == {i \in 1..Len(username) : SubSeq(username, i, i) = ":"}
    IN SubSeq(username, (CHOOSE i \in colons : \A j \in colons : i <= j) + 1, Len(username))

\* C27: with a secret configured every GET /ice is answered 200, whatever
\* the uid; the entry read and written is the one of the sanitized uid, the
\* username carries the sanitized uid, and a request whose sanitized uid has
\* an entry inside the window receives that entry's response, whichever raw
\* uid it was computed for.
UidSanitized ==
    [][(IceAnswered /\ SecretConfigured) =>
        \A key \in {Sanitized(http'.request)} :
        /\ http'.status = 200
        /\ Len(key) <= 64
        /\ DOMAIN iceResponseCache' = DOMAIN iceResponseCache \cup {key}
        /\ iceResponseCache'[key].response = http'.body
        /\ AfterColon(http'.body.username) = key
        /\ InWindow(iceResponseCache, key, http'.at) =>
              http'.body = iceResponseCache[key].response]_vars

\* A uid of 66 characters is answered from the entry computed for another
\* uid with the same first 64 characters.
UidSanitizedWitness ==
    /\ http.route = "/ice"
    /\ http.status = 200
    /\ http.request = QString(" " \o X64 \o "z")
    /\ http.at = 299999
    /\ X64 \in DOMAIN iceResponseCache
    /\ iceResponseCache[X64].cachedAt = 999
    /\ http.body = iceResponseCache[X64].response
    /\ http.body.username = "86400:" \o X64

\* The first of the comma-separated values of a header.
FirstOfList(header) ==
    CHOOSE p \in {SubSeq(header, 1, n) : n \in 0..Len(header)} :
        /\ \A i \in 1..Len(p) : SubSeq(p, i, i) # ","
        /\ \/ p = header
           \/ SubSeq(header, Len(p) + 1, Len(p) + 1) = ","

\* The absolute call url of a protocol, a host and a room.
AbsoluteUrl(proto, host, roomId) == proto \o "://" \o host \o "/call/" \o roomId

\* C28, as stated: every POST /api/calls returns the url
\* '<proto>://<host>/call/<roomId>' with the roomId of the body, where proto
\* is the first value of x-forwarded-proto when the header is present and
\* the protocol of the request otherwise.
CallUrlAlwaysAbsolute ==
    http.route = "/api/calls" =>
        LET req == http.request
            proto == IF req.forwardedProto # Undefined
                     THEN FirstOfList(req.forwardedProto) ELSE req.protocol
        IN /\ req.host # Undefined
           /\ http.body.url = AbsoluteUrl(proto, req.host, http.body.roomId)

\* C28, amended: every POST /api/calls returns a roomId that the call before
\* it did not return; when the request has a Host header the url is
\* '<proto>://<host>/call/<roomId>' with that roomId, where proto is the
\* first value of x-forwarded-proto when the header is present and not
\* empty and the protocol of the request otherwise; when the request has no
\* Host header the url is the relative '/call/<roomId>'.
CallUrl ==
    /\ [](http.route = "/api/calls" =>
            LET req == http.request
                proto == IF req.forwardedProto \notin {Undefined, ""}
                         THEN FirstOfList(req.forwardedProto) ELSE req.protocol
            IN /\ http.status = 200
               /\ req.host # Undefined =>
                     http.body.url = AbsoluteUrl(proto, req.host, http.body.roomId)
               /\ req.host = Undefined =>
                     http.body.url = "/call/" \o http.body.roomId)
    /\ [][(CallAnswered /\ http.route = "/api/calls") =>
            http'.body.roomId # http.body.roomId]_vars

\* A second call, behind a proxy that forwards 'https,http' over plain http.
CallUrlWitness ==
    /\ http.route = "/api/calls"
    /\ http.request = [host |-> "example.com", forwardedProto |-> "https,http",
                       protocol |-> "http"]
    /\ http.body = [roomId |-> "uuid-2", url |-> "https://example.com/call/uuid-2"]

(***************************************************************************)
(* Vocabulary of the frontend properties.                                  *)
(***************************************************************************)
\* The websocket protocol resolved from the page.
ResolvedProtocol == IF page.protocol = "https:" THEN "wss" ELSE "ws"

HasWsProtocol(str) == SubSeq(str, 1, 5) = "ws://" \/ SubSeq(str, 1, 6) = "wss://"

\* C29: the url of the client is 'wss://<host>' on an https page and
\* 'ws://<host>' otherwise when VITE_SIGNALING_URL is empty, the setting
\* itself when it is a ws:// or wss:// url, and the setting prefixed with
\* the protocol resolved from the page when it has no protocol.
BuildUrlHonoursSetting ==
    hook.client =>
        hook.url = IF page.setting = "" THEN ResolvedProtocol \o "://" \o page.host
                   ELSE IF HasWsProtocol(page.setting) THEN page.setting
                   ELSE ResolvedProtocol \o "://" \o page.setting

\* What a finished run of the listener may have done with the join p.
JoinedDirectly(p) == <<Invoked("onReconnected"), Sent("join-room", p)>>
JoinedAfterConnect(p) == <<Invoked("onReconnected"), Invoked("connect"), Sent("join-room", p)>>
ConnectFailed(error) == <<Invoked("onReconnected"), Invoked("connect"), Failed(error)>>

\* C30, as stated: a run of the listener for a 'reconnected' event that came
\* while a join was recorded invokes onReconnected and then sends exactly
\* one join-room with join parameters, after connecting first when the
\* client was not connected; or the connect fails, onReconnectionFailed is
\* invoked with the error and no join-room is sent.
ReJoinWheneverRecorded ==
    (hook.run.done /\ hook.run.atEvent # NoJoin) =>
        \/ \E p \in JoinParamsSet :
              hook.run.trace \in {JoinedDirectly(p), JoinedAfterConnect(p)}
        \/ hook.run.connectFailed /\ hook.run.trace = ConnectFailed("error-event")

\* C30, amended: every run of the listener first invokes onReconnected; when
\* a join is recorded once onReconnected has settled, the run sends exactly
\* one join-room, with the parameters recorded at that moment, directly when
\* the client is connected and after a connect when it is not; or that
\* connect fails, onReconnectionFailed is invoked with the error and no
\* join-room is sent. Nothing is sent before the run is over.
ReJoinAfterReconnect ==
    /\ hook.pc # "idle" =>
          /\ Head(hook.run.trace) = Invoked("onReconnected")
          /\ \A i \in 1..Len(hook.run.trace) :
                hook.run.trace[i].e \in {"onReconnected", "connect"}
    /\ (hook.run.done /\ hook.run.afterHandler # NoJoin) =>
          LET p == hook.run.afterHandler IN
          IF hook.run.wasConnected
          THEN hook.run.trace = JoinedDirectly(p)
          ELSE IF hook.run.connectFailed
          THEN hook.run.trace = ConnectFailed("error-event")
          ELSE hook.run.trace = JoinedAfterConnect(p)

\* A run that connected first and re-joined the room recorded while
\* onReconnected was running.
ReJoinAfterReconnectWitness ==
    /\ hook.run.done
    /\ hook.run.atEvent.roomId = "test-room"
    /\ hook.run.afterHandler.roomId = "updated-room"
    /\ ~hook.run.wasConnected
    /\ hook.run.trace = JoinedAfterConnect(hook.run.afterHandler)

ToldOfJoin(o) ==
    {<<o[i].payload.clientId, o[i].to>> :
        i \in {j \in 1..Len(o) : o[j].type = "peer-joined" /\ o[j].status = "sent"}}

\* C33, as stated: while x stays a member of its room, no connection takes
\* a second peer-joined for x, also when x sends join-room for the room
\* again.
AnnouncedOncePerMembership ==
    [][\A pr \in ToldOfJoin(out') :
          (MapHas(clients, pr[1]) /\ clients'[pr[1]].roomId = clients[pr[1]].roomId)
          => pr \notin wire.announced]_vars

\* C33, amended: every join-room of x that is accepted for room R is
\* announced once: each other member of R is sent exactly one peer-joined
\* for x in that handler and x, like every non-member, is sent none,
\* also when x was a member of R already, so a member is told again for
\* every join-room that x repeats.
AnnouncedOncePerJoin ==
    [][(IsValidJoin(last') /\ Sends(out', "room-joined") # {}) =>
          LET x == last'.clientId
              R == clients'[x].roomId
          IN \A d \in Ids :
                Cardinality({i \in Sends(out', "peer-joined") :
                                out'[i].to = d /\ out'[i].payload.clientId = x})
                = IF d \in Elems(rooms'[R].clients) \ {x} THEN 1 ELSE 0]_vars

\* A member of the room has just been told of x a second time: x sent
\* join-room for the room it is in.
AnnouncedOncePerJoinWitness ==
    /\ IsValidJoin(last)
    /\ \E pr \in ToldOfJoin(out) :
          /\ pr[1] = last.clientId
          /\ pr \in wire.announced
          /\ wire.seq >= 2
          /\ \E i, j \in 1..Len(wire.inbox[pr[2]]) :
                /\ i < j
                /\ wire.inbox[pr[2]][i].type = "peer-joined"
                /\ wire.inbox[pr[2]][j].type = "peer-joined"
                /\ wire.inbox[pr[2]][i].about = pr[1]
                /\ wire.inbox[pr[2]][j].about = pr[1]
                /\ \A k \in i..j : wire.inbox[pr[2]][k].type = "peer-joined"

\* The signal envelopes of the last handler that went to connection d.
SignalsTo(o, d) == {i \in Sends(o, "signal") : o[i].to = d}

\* C34, as stated: no signal envelope is sent to the connection that sent
\* it, broadcast or addressed, also when the targetClientId is the
\* sender's own id.
SignalNeverToSender ==
    [][IsMessage(last', "signal") => SignalsTo(out', last'.clientId) = {}]_vars

\* C34, amended: a signal broadcast to the room is never sent to its
\* sender; a signal addressed with a targetClientId is sent to that
\* connection only, so to the sender exactly when the targetClientId is the
\* sender's own id and the sender is in the room.
SignalToSenderOnlyWhenTargeted ==
    [][(IsMessage(last', "signal") /\ last'.message.payload # Undef) =>
          LET x == last'.clientId
              p == last'.message.payload
          IN /\ p.targetClientId = NoTarget => SignalsTo(out', x) = {}
             /\ p.targetClientId # NoTarget =>
                   /\ \A d \in Ids \ {p.targetClientId} : SignalsTo(out', d) = {}
                   /\ p.targetClientId = x =>
                         (Cardinality(SignalsTo(out', x)) =
                            IF (~Falsy(p.roomId) /\ p.signal # Undefined /\ InStatedRoom(x, p))
                            THEN 1 ELSE 0)]_vars

\* A member of a room shared with another has just been relayed the
\* signal it addressed to itself, and nobody else was.
SignalToSenderOnlyWhenTargetedWitness ==
    /\ IsMessage(last, "signal")
    /\ last.message.payload # Undef
    /\ last.message.payload.targetClientId = last.clientId
    /\ Len(out) = 1
    /\ out[1].type = "signal"
    /\ out[1].to = last.clientId
    /\ out[1].status = "sent"
    /\ out[1].payload.senderId = last.clientId
    /\ Cardinality(Members(clients[last.clientId].roomId)) >= 2

(***************************************************************************)
(* C35.  Every leave-room of a registered connection is answered with      *)
(* exactly one room-left, sent to that connection and to nobody else,      *)
(* whether or not it was in a room; when it was in no room the registry    *)
(* and the rooms are unchanged and nothing else, no peer-left, is sent.    *)
(***************************************************************************)
LeaveRoomAnswered ==
    [][(IsMessage(last', "leave-room") /\ MapHas(clients, last'.clientId)) =>
          LET x == last'.clientId IN
          /\ Cardinality(Sends(out', "room-left")) = 1
          /\ \A i \in Sends(out', "room-left") :
                out'[i].to = x /\ out'[i].payload = [empty |-> TRUE]
          /\ clients[x].roomId = Null =>
                /\ clients' = clients
                /\ rooms' = rooms
                /\ Sends(out', "peer-left") = {}
                /\ Len(out') = 1]_vars

\* A connection that was in no room has just been answered room-left
\* while a room has members: no room was ever emptied and nobody was told
\* of a departure.
LeaveRoomAnsweredWitness ==
    /\ IsMessage(last, "leave-room")
    /\ MapHas(clients, last.clientId)
    /\ clients[last.clientId].roomId = Null
    /\ Len(out) = 1
    /\ out[1].type = "room-left"
    /\ out[1].to = last.clientId
    /\ out[1].status = "sent"
    /\ lastEmptied.roomId = Null
    /\ \E R \in DOMAIN rooms : Cardinality(Members(R)) >= 2

\* The number a string of decimal digits writes.
DigitValue(ch) ==
    CASE ch = "0" -> 0 [] ch = "1" -> 1 [] ch = "2" -> 2 [] ch = "3" -> 3
      [] ch = "4" -> 4 [] ch = "5" -> 5 [] ch = "6" -> 6 [] ch = "7" -> 7
      [] ch = "8" -> 8 [] ch = "9" -> 9

RECURSIVE DecimalValue(_)
DecimalValue(str) ==
    IF str = "" THEN 0
    ELSE 10 * DecimalValue(SubSeq(str, 1, Len(str) - 1))
         + DigitValue(SubSeq(str, Len(str), Len(str)))

\* The expiry a username starts with, in seconds.
ExpiryOf(username) ==
    LET colons == {i \in 1..Len(username) : SubSeq(username, i, i) = ":"}
    IN DecimalValue(SubSeq(username, 1, (CHOOSE i \in colons : \A j \in colons : i <= j) - 1))

\* C36: the cache window is fixed, not sliding: a request answered from the
\* cache leaves the entry and its cachedAt as they are, and is answered so
\* only at an age under 300000 ms; at an age of 300000 ms or more the entry
\* is computed again with the instant of the request as cachedAt; and the
\* expiry of every username returned is between ttl - 300 and ttl seconds
\* after the current time in seconds.
FixedCacheWindow ==
    [][(IceAnswered /\ http'.status = 200) =>
        \A uid \in {normalizeUid(http'.request)} :
        /\ iceResponseCache' = iceResponseCache =>
              /\ uid \in DOMAIN iceResponseCache
              /\ http'.at - iceResponseCache[uid].cachedAt < 300000
              /\ http'.body = iceResponseCache[uid].response
        /\ (uid \in DOMAIN iceResponseCache
            /\ http'.at - iceResponseCache[uid].cachedAt < 300000) =>
              iceResponseCache' = iceResponseCache
        /\ (uid \in DOMAIN iceResponseCache
            /\ http'.at - iceResponseCache[uid].cachedAt >= 300000) =>
              /\ iceResponseCache'[uid].cachedAt = http'.at
              /\ iceResponseCache'[uid].response = http'.body
              /\ ExpiryOf(http'.body.username) >= (http'.at \div 1000) + 86400
        /\ \A expiry \in {ExpiryOf(http'.body.username)} :
              /\ expiry >= (now' \div 1000) + 86400 - 300
              /\ expiry <= (now' \div 1000) + 86400]_vars

\* An entry computed at 999 ms has answered a request at 300000 ms: its
\* expiry is ttl - 300 seconds after the current second.
FixedCacheWindowWitness ==
    /\ http.route = "/ice"
    /\ http.status = 200
    /\ http.request = QString("alice")
    /\ http.at = 300000
    /\ now = 300000
    /\ iceResponseCache["alice"].cachedAt = 999
    /\ http.body = iceResponseCache["alice"].response
    /\ ExpiryOf(http.body.username) = 300 + 86400 - 300

\* A run of the listener has just sent join-room.
ListenerJoins(before, after) ==
    /\ Len(after.run.trace) > 0
    /\ after.run.trace[Len(after.run.trace)].e = "send:join-room"
    /\ after.run # before.run

(***************************************************************************)
(* C31: sendSignal throws and sends nothing when no join is recorded (no   *)
(* joinRoom has completed, or the hook has no client) or when the client   *)
(* is not connected; otherwise it sends exactly one signal whose roomId is *)
(* that of the recorded join, with the given targetClientId and signal.    *)
(* The recorded join changes only to the parameters of a joinRoom call     *)
(* (overrides included) or, by leaveRoom, to none.                         *)
(***************************************************************************)
SendSignalContract ==
    /\ [](hook.call.op = "sendSignal" =>
            IF ~hook.call.client \/ hook.call.recorded = NoJoin
               \/ ~hook.call.connected
            THEN hook.call.threw # Null /\ hook.call.sent = <<>>
            ELSE /\ hook.call.threw = Null
                 /\ Len(hook.call.sent) = 1
                 /\ hook.call.sent[1].type = "signal"
                 /\ hook.call.sent[1].roomId = hook.call.recorded.roomId
                 /\ hook.call.sent[1].targetClientId = hook.call.target
                 /\ hook.call.sent[1].signal = hook.call.signal)
    /\ [][hook'.lastJoin # hook.lastJoin =>
            \/ hook'.lastJoin = NoJoin /\ hook'.call.op = "leaveRoom"
            \/ hook'.lastJoin = hook.joining /\ hook.joining # NoJoin
            \/ /\ hook'.call.op = "joinRoom"
               /\ hook'.lastJoin = hook'.call.asked]_vars

\* A signal has been sent for the room of an override, and the call before
\* it was not this one.
SendSignalContractWitness ==
    /\ hook.call.op = "sendSignal"
    /\ hook.call.sent # <<>>
    /\ hook.call.recorded.roomId = "updated-room"
    /\ hook.call.target = "peer-2"

(***************************************************************************)
(* C40: after leaveRoom, and until joinRoom is called again, a run of the  *)
(* listener for a 'reconnected' event that came after the leave sends no   *)
(* join-room and sendSignal throws; leaveRoom sends leave-room only if a   *)
(* join was recorded and the client was connected.                         *)
(***************************************************************************)
LeaveForgetsRoom ==
    /\ [](hook.call.op = "sendSignal" /\ hook.call.left
             => hook.call.threw # Null /\ hook.call.sent = <<>>)
    /\ [](hook.call.op = "leaveRoom" /\ hook.call.sent # <<>>
             => hook.call.recorded # NoJoin /\ hook.call.connected)
    /\ [][hook.left /\ hook'.left /\ hook'.run.left
             => ~ListenerJoins(hook, hook')]_vars

(***************************************************************************)
(* C37: after close() has returned and until the owner calls connect()     *)
(* again, no new WebSocket is made and no 'reconnected' is emitted,        *)
(* whatever the state close() was called in.                               *)
(***************************************************************************)
CloseStopsReconnection ==
    [][signalingClient.stopped /\ signalingClient'.stopped
       /\ signalingClient' # signalingClient
         => /\ signalingClient'.created = signalingClient.created
            /\ \A i \in DOMAIN signalingClient'.step.emitted :
                 signalingClient'.step.emitted[i] # "reconnected"]_vars

(***************************************************************************)
(* C38: at most one reconnect timer is pending at any time; a reconnection *)
(* scheduled when k have been scheduled since the last open (or since the  *)
(* client was made) has the delay min(1000 * 2^k, 10000) ms; the open of a *)
(* socket sets the attempt counter to 0.                                   *)
(***************************************************************************)
ReconnectBackoff ==
    /\ [](Cardinality(signalingClient.timers) <= 1)
    /\ [][\A t \in signalingClient'.timers \ signalingClient.timers :
            t.delay = Min(1000 * 2 ^ signalingClient.scheduled, 10000)]_vars
    /\ [][signalingClient'.step.op = "open"
          /\ signalingClient' # signalingClient
            => signalingClient'.reconnectAttempts = 0]_vars

\* After an open, five reconnections in a row have been scheduled, the
\* last one with the capped delay, and its timer is the only one pending.
ReconnectBackoffWitness ==
    /\ signalingClient.scheduled = 5
    /\ signalingClient.timers = {[id |-> 1, delay |-> 10000]}
    /\ \E s \in SocketIds : signalingClient.promise[s] = "resolved"
    /\ signalingClient.step.op = "fail"
    /\ signalingClient.step.emitted = <<"error", "close">>

(***************************************************************************)
(* C39: when close() was followed by connect(), the 'close' event of the   *)
(* socket that close() closed, delivered while the client has its new      *)
(* socket, leaves the new socket in place and schedules no reconnection.   *)
(***************************************************************************)
LateCloseIgnored ==
    [][(/\ signalingClient'.step.op \in {"fail", "closed"}
        /\ signalingClient.readyState[signalingClient'.step.socket] = "CLOSING"
        /\ signalingClient.socket # 0)
         => /\ signalingClient'.socket = signalingClient.socket
            /\ signalingClient'.timers = signalingClient.timers
            /\ signalingClient'.reconnectTimer = signalingClient.reconnectTimer]_vars
====
